---- MODULE Spec2Model ----
(***************************************************************************)
(* Resource limits manager of gstio (libraries/chain/resource_limits.cpp): *)
(* the six tables of the store, the manager's handlers as operators over   *)
(* a store record, and one action per handler.                             *)
(*                                                                         *)
(* Integers are scaled: a uint64_t has WordBits bits, an int64_t one bit   *)
(* less of magnitude, so that the wrap-arounds and the overflow checks of  *)
(* the code are reached with small numbers.                                *)
(*                                                                         *)
(* A handler that throws leaves the writes it made before the throw in     *)
(* the store (the manager undoes nothing) and the call's error in ret.     *)
(* The caller discards such a store by rolling its transaction back to     *)
(* the state the call started from, so no further call is made on it:      *)
(* every action requires ret.err = "ok".                                   *)
(***************************************************************************)
EXTENDS Integers, Sequences, FiniteSets, TLC

VARIABLES limits, usage, gst, activation, state, config, ret, probe

vars == <<limits, usage, gst, activation, state, config, ret, probe>>

(* ------------------------------ bounds -------------------------------- *)

\* width of the scaled uint64_t
WordBits == 3

UINT64_MAX == 2^WordBits - 1

INT64_MAX == 2^(WordBits - 1) - 1

\* uint64_t arithmetic wraps
Wrap(x) == x % (UINT64_MAX + 1)

\* (uint64_t)x of an int64_t x
ToUint64(x) == IF x < 0 THEN x + UINT64_MAX + 1 ELSE x

\* (int64_t)x of a uint64_t x
ToInt64(x) == IF x > INT64_MAX THEN x - (UINT64_MAX + 1) ELSE x

Min(a, b) == IF a < b THEN a ELSE b

Max(a, b) == IF a < b THEN b ELSE a

(* ------------------------------ accounts ------------------------------ *)

\* account names in the order of their 64-bit values (the by_owner order)
NameOrder == <<"alice", "gstio", "gstio.gas">>

Accounts == {NameOrder[i] : i \in DOMAIN NameOrder}

Rank(a) == CHOOSE i \in DOMAIN NameOrder : NameOrder[i] = a

(* ------------------------------- store -------------------------------- *)

\* A table is the sequence of its rows in creation (id) order.
Store ==
    [limits |-> limits, usage |-> usage, gst |-> gst,
     activation |-> activation, state |-> state, config |-> config]

\* the positions of the rows of tbl with key (pending, owner)
Rows(tbl, pending, owner) ==
    {i \in DOMAIN tbl : tbl[i].pending = pending /\ tbl[i].owner = owner}

\* _db.find<T, by_owner>(make_tuple(pending, owner)): 0 stands for nullptr
Find(tbl, pending, owner) ==
    IF Rows(tbl, pending, owner) = {} THEN 0
    ELSE CHOOSE i \in Rows(tbl, pending, owner) :
             \A j \in Rows(tbl, pending, owner) : i <= j

\* _db.find<resource_usage_object, by_owner>(owner)
FindUsage(tbl, owner) ==
    IF {i \in DOMAIN tbl : tbl[i].owner = owner} = {} THEN 0
    ELSE CHOOSE i \in DOMAIN tbl :
             /\ tbl[i].owner = owner
             /\ \A j \in DOMAIN tbl : tbl[j].owner = owner => i <= j

\* multi_index.remove(row)
Remove(tbl, i) == SubSeq(tbl, 1, i - 1) \o SubSeq(tbl, i + 1, Len(tbl))

\* what a handler hands back: the store it leaves, its error, its value
Ok(s) == [s |-> s, err |-> "ok", val |-> FALSE]

Return(s, v) == [s |-> s, err |-> "ok", val |-> v]

Fail(s, e) == [s |-> s, err |-> e, val |-> FALSE]

(* ------------------------- schema and defaults ------------------------ *)

\* config::rate_limiting_precision, scaled
RATE_PRECISION == 4

\* exponential_moving_average_accumulator, default constructed
EmaZero == [last_ordinal |-> 0, value_ex |-> 0, consumed |-> 0]

Ratio(n, d) == [numerator |-> n, denominator |-> d]

\* the elastic_limit_parameters a resource_limits_config_object is declared with
DefaultParams ==
    [target |-> 1, max |-> 2, periods |-> 2, max_multiplier |-> 2,
     contract_rate |-> Ratio(1, 2), expand_rate |-> Ratio(2, 1)]

\* resource_limits_config_object as declared
DefaultConfig ==
    [cpu_limit_parameters |-> DefaultParams,
     net_limit_parameters |-> DefaultParams,
     account_cpu_usage_average_window |-> 2,
     account_net_usage_average_window |-> 2]

\* resource_limits_state_object as declared
DefaultState ==
    [average_block_net_usage |-> EmaZero, average_block_cpu_usage |-> EmaZero,
     pending_net_usage |-> 0, pending_cpu_usage |-> 0,
     total_net_weight |-> 0, total_cpu_weight |-> 0, total_ram_bytes |-> 0,
     virtual_net_limit |-> 0, virtual_cpu_limit |-> 0]

\* resource_limits_object as declared: every limit unlimited
DefaultLimits(owner) ==
    [owner |-> owner, pending |-> FALSE,
     ram_bytes |-> -1, net_weight |-> -1, cpu_weight |-> -1]

\* resource_usage_object as declared
DefaultUsage(owner) ==
    [owner |-> owner, net_usage |-> EmaZero, cpu_usage |-> EmaZero, ram_usage |-> 0]

(* ----------------------------- handlers ------------------------------- *)

\* initialize_database: the config row, then the state row in slow start
initialize_database ==
    [limits |-> <<>>, usage |-> <<>>, gst |-> <<>>, activation |-> <<>>,
     config |-> DefaultConfig,
     state |-> [DefaultState EXCEPT
                  !.virtual_cpu_limit = DefaultConfig.cpu_limit_parameters.max,
                  !.virtual_net_limit = DefaultConfig.net_limit_parameters.max]]

\* the unique by_owner indices refuse a second row for the account
AccountExists(s, account) ==
    \/ Find(s.limits, FALSE, account) # 0
    \/ FindUsage(s.usage, account) # 0

\* initialize_account adding the owner's default weights to the totals
initialize_account_counting_totals(s, account) ==
    IF AccountExists(s, account) THEN Fail(s, "AccountAlreadyExists")
    ELSE Ok([s EXCEPT !.limits = Append(@, DefaultLimits(account)),
                      !.usage = Append(@, DefaultUsage(account)),
                      !.state.total_ram_bytes = Wrap(@ + ToUint64(-1))])

\* the limits row is created first: when only the usage row is there already
\* the second create throws with the new limits row in the table
initialize_account(s, account) ==
    IF Find(s.limits, FALSE, account) # 0 THEN Fail(s, "AccountAlreadyExists")
    ELSE IF FindUsage(s.usage, account) # 0
    THEN Fail([s EXCEPT !.limits = Append(@, DefaultLimits(account))],
              "AccountAlreadyExists")
    ELSE Ok([s EXCEPT !.limits = Append(@, DefaultLimits(account)),
                      !.usage = Append(@, DefaultUsage(account))])

\* get_account_limits reading the committed row first
get_account_limits_committed_first(s, account) ==
    LET p == Find(s.limits, TRUE, account)
        c == Find(s.limits, FALSE, account)
        i == IF c # 0 THEN c ELSE p
    IN  IF i # 0
        THEN [found |-> TRUE, ram_bytes |-> s.limits[i].ram_bytes,
              net_weight |-> s.limits[i].net_weight,
              cpu_weight |-> s.limits[i].cpu_weight]
        ELSE [found |-> FALSE, ram_bytes |-> 0, net_weight |-> 0, cpu_weight |-> 0]

\* get_account_limits: the pending row when there is one, else the committed one
get_account_limits(s, account) ==
    LET p == Find(s.limits, TRUE, account)
        c == Find(s.limits, FALSE, account)
    IN  IF p # 0
        THEN [found |-> TRUE, ram_bytes |-> s.limits[p].ram_bytes,
              net_weight |-> s.limits[p].net_weight,
              cpu_weight |-> s.limits[p].cpu_weight]
        ELSE IF c # 0
        THEN [found |-> TRUE, ram_bytes |-> s.limits[c].ram_bytes,
              net_weight |-> s.limits[c].net_weight,
              cpu_weight |-> s.limits[c].cpu_weight]
        ELSE [found |-> FALSE, ram_bytes |-> 0, net_weight |-> 0, cpu_weight |-> 0]

\* set_account_limits, lambda find_or_create_pending_limits: the table after it
\* and the position of the pending row (0 when _db.get of the committed row throws)
find_or_create_pending_limits(tbl, account) ==
    LET p == Find(tbl, TRUE, account)
        c == Find(tbl, FALSE, account)
    IN  IF p # 0 THEN [tbl |-> tbl, at |-> p]
        ELSE IF c = 0 THEN [tbl |-> tbl, at |-> 0]
        ELSE [tbl |-> Append(tbl, [owner |-> tbl[c].owner, pending |-> TRUE,
                                   ram_bytes |-> tbl[c].ram_bytes,
                                   net_weight |-> tbl[c].net_weight,
                                   cpu_weight |-> tbl[c].cpu_weight]),
              at |-> Len(tbl) + 1]

\* set_account_limits writing the committed row instead of a pending one
set_account_limits_unstaged(s, account, ram_bytes, net_weight, cpu_weight) ==
    LET c == Find(s.limits, FALSE, account)
    IN  IF c = 0 THEN Fail(s, "NotFound")
        ELSE Return([s EXCEPT !.limits[c].ram_bytes = ram_bytes,
                              !.limits[c].net_weight = net_weight,
                              !.limits[c].cpu_weight = cpu_weight],
                    ram_bytes >= 0 /\ (s.limits[c].ram_bytes < 0
                                        \/ ram_bytes < s.limits[c].ram_bytes))

\* set_account_limits telling a decrease by the committed row's ram_bytes
set_account_limits_committed_old(s, account, ram_bytes, net_weight, cpu_weight) ==
    LET f == find_or_create_pending_limits(s.limits, account)
        old == f.tbl[Find(f.tbl, FALSE, account)]
        decreased_limit ==
            IF ram_bytes >= 0
            THEN (old.ram_bytes < 0) \/ (ram_bytes < old.ram_bytes)
            ELSE FALSE
    IN  IF f.at = 0 THEN Fail(s, "NotFound")
        ELSE Return([s EXCEPT !.limits =
                        [f.tbl EXCEPT ![f.at].ram_bytes = ram_bytes,
                                      ![f.at].net_weight = net_weight,
                                      ![f.at].cpu_weight = cpu_weight]],
                    decreased_limit)

\* set_account_limits keeping the values of a pending row that exists already
set_account_limits_first_wins(s, account, ram_bytes, net_weight, cpu_weight) ==
    LET f == find_or_create_pending_limits(s.limits, account)
        old == f.tbl[f.at]
        decreased_limit ==
            IF ram_bytes >= 0
            THEN (old.ram_bytes < 0) \/ (ram_bytes < old.ram_bytes)
            ELSE FALSE
    IN  IF f.at = 0 THEN Fail(s, "NotFound")
        ELSE IF Find(s.limits, TRUE, account) # 0 THEN Return(s, decreased_limit)
        ELSE Return([s EXCEPT !.limits =
                        [f.tbl EXCEPT ![f.at].ram_bytes = ram_bytes,
                                      ![f.at].net_weight = net_weight,
                                      ![f.at].cpu_weight = cpu_weight]],
                    decreased_limit)

set_account_limits(s, account, ram_bytes, net_weight, cpu_weight) ==
    LET f == find_or_create_pending_limits(s.limits, account)
        old == f.tbl[f.at]
        decreased_limit ==
            IF ram_bytes >= 0
            THEN (old.ram_bytes < 0) \/ (ram_bytes < old.ram_bytes)
            ELSE FALSE
    IN  IF f.at = 0 THEN Fail(s, "NotFound")
        ELSE Return([s EXCEPT !.limits =
                        [f.tbl EXCEPT ![f.at].ram_bytes = ram_bytes,
                                      ![f.at].net_weight = net_weight,
                                      ![f.at].cpu_weight = cpu_weight]],
                    decreased_limit)

\* update_state_and_value without the revert of the old value
update_state_and_value_no_revert(total, value, pending_value) ==
    IF pending_value > 0 /\ ~(UINT64_MAX - total >= pending_value)
    THEN [total |-> total, value |-> value, err |-> "StateInconsistentOverflow"]
    ELSE [total |-> IF pending_value > 0 THEN total + pending_value ELSE total,
          value |-> pending_value, err |-> "ok"]

\* process_account_limit_updates, lambda update_state_and_value
update_state_and_value(total, value, pending_value) ==
    LET reverted == IF value > 0 THEN total - value ELSE total
        applied == IF pending_value > 0 THEN reverted + pending_value ELSE reverted
    IN  IF value > 0 /\ ~(total >= value)
        THEN [total |-> total, value |-> value, err |-> "StateInconsistentUnderflow"]
        ELSE IF pending_value > 0 /\ ~(UINT64_MAX - reverted >= pending_value)
        THEN [total |-> reverted, value |-> value, err |-> "StateInconsistentOverflow"]
        ELSE [total |-> applied, value |-> pending_value, err |-> "ok"]

\* lower_bound taking the pending row of greatest owner
lower_bound_pending_last(tbl) ==
    LET P == {i \in DOMAIN tbl : tbl[i].pending}
    IN  IF P = {} THEN 0
        ELSE CHOOSE i \in P :
                 \A j \in P : \/ Rank(tbl[i].owner) > Rank(tbl[j].owner)
                              \/ (tbl[i].owner = tbl[j].owner /\ i <= j)

\* by_owner_index.lower_bound(make_tuple(true)): the pending row of least owner
lower_bound_pending(tbl) ==
    LET P == {i \in DOMAIN tbl : tbl[i].pending}
    IN  IF P = {} THEN 0
        ELSE CHOOSE i \in P :
                 \A j \in P : \/ Rank(tbl[i].owner) < Rank(tbl[j].owner)
                              \/ (tbl[i].owner = tbl[j].owner /\ i <= j)

\* one turn of the loop on the pending row at position i: ram, cpu, net in turn;
\* a throw keeps what was written before it, and the pending row
commit_row(tbl, st, i) ==
    LET k == Find(tbl, FALSE, tbl[i].owner)
        ram == update_state_and_value(st.total_ram_bytes, tbl[k].ram_bytes, tbl[i].ram_bytes)
        cpu == update_state_and_value(st.total_cpu_weight, tbl[k].cpu_weight, tbl[i].cpu_weight)
        net == update_state_and_value(st.total_net_weight, tbl[k].net_weight, tbl[i].net_weight)
        st1 == [st EXCEPT !.total_ram_bytes = ram.total]
        tb1 == [tbl EXCEPT ![k].ram_bytes = ram.value]
        st2 == [st1 EXCEPT !.total_cpu_weight = cpu.total]
        tb2 == [tb1 EXCEPT ![k].cpu_weight = cpu.value]
        st3 == [st2 EXCEPT !.total_net_weight = net.total]
        tb3 == [tb2 EXCEPT ![k].net_weight = net.value]
    IN  IF k = 0 THEN [limits |-> tbl, state |-> st, err |-> "NotFound"]
        ELSE IF ram.err # "ok" THEN [limits |-> tb1, state |-> st1, err |-> ram.err]
        ELSE IF cpu.err # "ok" THEN [limits |-> tb2, state |-> st2, err |-> cpu.err]
        ELSE IF net.err # "ok" THEN [limits |-> tb3, state |-> st3, err |-> net.err]
        ELSE [limits |-> Remove(tb3, i), state |-> st3, err |-> "ok"]

\* the commit loop stopping after its first turn
commit_loop_once(tbl, st) ==
    LET i == lower_bound_pending(tbl)
    IN  IF i = 0 THEN [limits |-> tbl, state |-> st, err |-> "ok"]
        ELSE commit_row(tbl, st, i)

RECURSIVE commit_loop(_, _)
commit_loop(tbl, st) ==
    LET i == lower_bound_pending(tbl)
        r == commit_row(tbl, st, i)
    IN  IF i = 0 THEN [limits |-> tbl, state |-> st, err |-> "ok"]
        ELSE IF r.err # "ok" THEN r
        ELSE commit_loop(r.limits, r.state)

\* the while loop of process_account_limit_updates seen turn by turn: the
\* owners of the pending rows it applies and removes, in the order of the turns,
\* up to the end of the index or to the turn that throws
RECURSIVE commit_trace(_, _)
commit_trace(tbl, st) ==
    LET i == lower_bound_pending(tbl)
        r == commit_row(tbl, st, i)
    IN  IF i = 0 THEN <<>>
        ELSE IF r.err # "ok" THEN <<>>
        ELSE <<tbl[i].owner>> \o commit_trace(r.limits, r.state)

process_account_limit_updates(s) ==
    LET r == commit_loop(s.limits, s.state)
    IN  [s |-> [s EXCEPT !.limits = r.limits, !.state = r.state],
         err |-> r.err, val |-> FALSE]

\* is_activation taking a missing GasActivation row for an active one
is_activation_absent_on(s) ==
    LET i == Find(s.activation, TRUE, "gstio")
    IN  IF i = 0 THEN TRUE ELSE s.activation[i].is_activation

\* is_activation: the GasActivation row of gstio exists and is switched on
is_activation(s) ==
    LET i == Find(s.activation, TRUE, "gstio")
    IN  IF i = 0 THEN FALSE ELSE s.activation[i].is_activation

\* the gst_usage add_pending_ram_usage leaves in an existing gas row; the sum
\* (int64_t)gst_usage + ram_delta is signed, and where it passes INT64_MAX or
\* falls below INT64_MIN the build decides: wraps is the outcome in which the
\* sum wrapped around, and the other the one in which it kept its sign
charge_gst_usage(gst_usage, ram_delta, wraps) ==
    LET sum == ToInt64(gst_usage) + ram_delta
        negative == IF sum > INT64_MAX THEN wraps
                    ELSE IF sum < -INT64_MAX - 1 THEN ~wraps
                    ELSE sum < 0
    IN  IF negative THEN 0 ELSE Wrap(gst_usage + ToUint64(ram_delta))

\* add_pending_ram_usage without the underflow assertion
add_pending_ram_usage_no_underflow_check(s, account, ram_delta, wraps) ==
    LET u == FindUsage(s.usage, account)
        ram_usage == s.usage[u].ram_usage
        s1 == [s EXCEPT !.usage[u].ram_usage = Wrap(ram_usage + ToUint64(ram_delta))]
        g == Find(s.gst, TRUE, account)
    IN  IF ram_delta = 0 THEN Ok(s)
        ELSE IF u = 0 THEN Fail(s, "NotFound")
        ELSE IF ~(ram_delta <= 0 \/ UINT64_MAX - ram_usage >= ToUint64(ram_delta))
        THEN Fail(s, "RamUsageOverflow")
        ELSE IF ~is_activation(s) THEN Ok(s1)
        ELSE IF g # 0
        THEN Ok([s1 EXCEPT !.gst[g].gst_usage = charge_gst_usage(@, ram_delta, wraps)])
        ELSE Ok([s1 EXCEPT !.gst = Append(@,
                    [owner |-> account, pending |-> TRUE, gst_bytes |-> 0,
                     gst_usage |-> IF ram_delta < 0 THEN 0 ELSE ram_delta])])

\* add_pending_ram_usage enforcing the ram_bytes limit itself
add_pending_ram_usage_enforcing(s, account, ram_delta, wraps) ==
    LET u == FindUsage(s.usage, account)
        ram_usage == s.usage[u].ram_usage
        s1 == [s EXCEPT !.usage[u].ram_usage = Wrap(ram_usage + ToUint64(ram_delta))]
        g == Find(s.gst, TRUE, account)
    IN  IF ram_delta = 0 THEN Ok(s)
        ELSE IF u = 0 THEN Fail(s, "NotFound")
        ELSE IF ~(ram_delta <= 0 \/ UINT64_MAX - ram_usage >= ToUint64(ram_delta))
        THEN Fail(s, "RamUsageOverflow")
        ELSE IF ~(ram_delta >= 0 \/ ram_usage >= ToUint64(-ram_delta))
        THEN Fail(s, "RamUsageUnderflow")
        ELSE IF /\ get_account_limits(s, account).ram_bytes >= 0
                /\ s1.usage[u].ram_usage > get_account_limits(s, account).ram_bytes
        THEN Fail(s, "RamUsageExceeded")
        ELSE IF ~is_activation(s) THEN Ok(s1)
        ELSE IF g # 0
        THEN Ok([s1 EXCEPT !.gst[g].gst_usage = charge_gst_usage(@, ram_delta, wraps)])
        ELSE Ok([s1 EXCEPT !.gst = Append(@,
                    [owner |-> account, pending |-> TRUE, gst_bytes |-> 0,
                     gst_usage |-> IF ram_delta < 0 THEN 0 ELSE ram_delta])])

\* add_pending_ram_usage creating the gas row with the delta as it is
add_pending_ram_usage_unsaturated_row(s, account, ram_delta, wraps) ==
    LET u == FindUsage(s.usage, account)
        ram_usage == s.usage[u].ram_usage
        s1 == [s EXCEPT !.usage[u].ram_usage = Wrap(ram_usage + ToUint64(ram_delta))]
        g == Find(s.gst, TRUE, account)
    IN  IF ram_delta = 0 THEN Ok(s)
        ELSE IF u = 0 THEN Fail(s, "NotFound")
        ELSE IF ~(ram_delta <= 0 \/ UINT64_MAX - ram_usage >= ToUint64(ram_delta))
        THEN Fail(s, "RamUsageOverflow")
        ELSE IF ~(ram_delta >= 0 \/ ram_usage >= ToUint64(-ram_delta))
        THEN Fail(s, "RamUsageUnderflow")
        ELSE IF ~is_activation(s) THEN Ok(s1)
        ELSE IF g # 0
        THEN Ok([s1 EXCEPT !.gst[g].gst_usage = charge_gst_usage(@, ram_delta, wraps)])
        ELSE Ok([s1 EXCEPT !.gst = Append(@,
                    [owner |-> account, pending |-> TRUE, gst_bytes |-> 0,
                     gst_usage |-> ToUint64(ram_delta)])])

add_pending_ram_usage(s, account, ram_delta, wraps) ==
    LET u == FindUsage(s.usage, account)
        ram_usage == s.usage[u].ram_usage
        s1 == [s EXCEPT !.usage[u].ram_usage = Wrap(ram_usage + ToUint64(ram_delta))]
        g == Find(s.gst, TRUE, account)
    IN  IF ram_delta = 0 THEN Ok(s)
        ELSE IF u = 0 THEN Fail(s, "NotFound")
        ELSE IF ~(ram_delta <= 0 \/ UINT64_MAX - ram_usage >= ToUint64(ram_delta))
        THEN Fail(s, "RamUsageOverflow")
        ELSE IF ~(ram_delta >= 0 \/ ram_usage >= ToUint64(-ram_delta))
        THEN Fail(s, "RamUsageUnderflow")
        ELSE IF ~is_activation(s) THEN Ok(s1)
        ELSE IF g # 0
        THEN Ok([s1 EXCEPT !.gst[g].gst_usage = charge_gst_usage(@, ram_delta, wraps)])
        ELSE Ok([s1 EXCEPT !.gst = Append(@,
                    [owner |-> account, pending |-> TRUE, gst_bytes |-> 0,
                     gst_usage |-> IF ram_delta < 0 THEN 0 ELSE ram_delta])])

\* find_or_create_pending_limits of set_gst_limits creating without the find
find_or_create_pending_gst_no_find(tbl, account, gst_bytes) ==
    [tbl |-> Append(tbl, [owner |-> account, pending |-> TRUE,
                          gst_bytes |-> gst_bytes, gst_usage |-> 0]),
     at |-> Len(tbl) + 1]

\* set_gst_limits, lambda find_or_create_pending_limits
find_or_create_pending_gst(tbl, account, gst_bytes) ==
    LET p == Find(tbl, TRUE, account)
    IN  IF p # 0 THEN [tbl |-> tbl, at |-> p]
        ELSE [tbl |-> Append(tbl, [owner |-> account, pending |-> TRUE,
                                   gst_bytes |-> gst_bytes, gst_usage |-> 0]),
              at |-> Len(tbl) + 1]

\* set_gst_limits without the assertion on a decrease
set_gst_limits_unguarded(s, account, gst_bytes) ==
    LET f == find_or_create_pending_gst(s.gst, account, gst_bytes)
        old == f.tbl[f.at]
        decreased_limit ==
            IF gst_bytes >= 0
            THEN (old.gst_bytes < 0) \/ (gst_bytes < old.gst_bytes)
            ELSE FALSE
    IN  Return([s EXCEPT !.gst = [f.tbl EXCEPT ![f.at].gst_bytes = gst_bytes]],
               decreased_limit)

\* gst_bytes >= limits.gst_usage compares an int64_t with a uint64_t: unsigned
set_gst_limits(s, account, gst_bytes) ==
    LET f == find_or_create_pending_gst(s.gst, account, gst_bytes)
        old == f.tbl[f.at]
        decreased_limit ==
            IF gst_bytes >= 0
            THEN (old.gst_bytes < 0) \/ (gst_bytes < old.gst_bytes)
            ELSE FALSE
    IN  IF old.gst_bytes > gst_bytes /\ ~(ToUint64(gst_bytes) >= old.gst_usage)
        THEN Fail([s EXCEPT !.gst = f.tbl], "InsufficientGas")
        ELSE Return([s EXCEPT !.gst = [f.tbl EXCEPT ![f.at].gst_bytes = gst_bytes]],
                    decreased_limit)

\* set_gas_limits: a row it creates is switched on whatever the flag
set_gas_limits(s, flag) ==
    LET i == Find(s.activation, TRUE, "gstio")
    IN  IF i = 0
        THEN Ok([s EXCEPT !.activation = Append(@,
                    [owner |-> "gstio", pending |-> TRUE, is_activation |-> TRUE])])
        ELSE Ok([s EXCEPT !.activation[i].is_activation = flag])

\* verify_account_ram_usage holding gstio.gas and gstio to their balance too
verify_account_ram_usage_no_exemption(s, account) ==
    LET l == get_account_limits(s, account)
        u == FindUsage(s.usage, account)
        g == Find(s.gst, TRUE, account)
    IN  IF ~l.found \/ u = 0 THEN "NotFound"
        ELSE IF l.ram_bytes >= 0 /\ ~(s.usage[u].ram_usage <= l.ram_bytes)
        THEN "RamUsageExceeded"
        ELSE IF ~is_activation(s) THEN "ok"
        ELSE IF g # 0
        THEN IF /\ s.gst[g].gst_bytes >= 0
                /\ ~(s.gst[g].gst_usage <= s.gst[g].gst_bytes)
             THEN "InsufficientGas"
             ELSE "ok"
        ELSE IF account = "gstio.gas" THEN "ok" ELSE "GasNotProvisioned"

\* verify_account_ram_usage letting gstio pass without a gas row as well
verify_account_ram_usage_gstio_passes(s, account) ==
    LET l == get_account_limits(s, account)
        u == FindUsage(s.usage, account)
        g == Find(s.gst, TRUE, account)
    IN  IF ~l.found \/ u = 0 THEN "NotFound"
        ELSE IF l.ram_bytes >= 0 /\ ~(s.usage[u].ram_usage <= l.ram_bytes)
        THEN "RamUsageExceeded"
        ELSE IF ~is_activation(s) THEN "ok"
        ELSE IF g # 0
        THEN IF /\ s.gst[g].gst_bytes >= 0
                /\ s.gst[g].owner # "gstio.gas"
                /\ s.gst[g].owner # "gstio"
                /\ ~(s.gst[g].gst_usage <= s.gst[g].gst_bytes)
             THEN "InsufficientGas"
             ELSE "ok"
        ELSE IF account \in {"gstio.gas", "gstio"} THEN "ok" ELSE "GasNotProvisioned"

\* verify_account_ram_usage: the error it throws, "ok" when none
verify_account_ram_usage(s, account) ==
    LET l == get_account_limits(s, account)
        u == FindUsage(s.usage, account)
        g == Find(s.gst, TRUE, account)
    IN  IF ~l.found \/ u = 0 THEN "NotFound"
        ELSE IF l.ram_bytes >= 0 /\ ~(s.usage[u].ram_usage <= l.ram_bytes)
        THEN "RamUsageExceeded"
        ELSE IF ~is_activation(s) THEN "ok"
        ELSE IF g # 0
        THEN IF /\ s.gst[g].gst_bytes >= 0
                /\ s.gst[g].owner # "gstio.gas"
                /\ s.gst[g].owner # "gstio"
                /\ ~(s.gst[g].gst_usage <= s.gst[g].gst_bytes)
             THEN "InsufficientGas"
             ELSE "ok"
        ELSE IF account = "gstio.gas" THEN "ok" ELSE "GasNotProvisioned"

\* the bytes verify_account_gst_usage charges a transaction (100), scaled
GAS_TOLL == 2

\* verify_account_gst_usage charging a row whatever its gst_bytes
verify_account_gst_usage_charging_unlimited(s, account) ==
    LET g == Find(s.gst, TRUE, account)
    IN  IF g = 0 THEN Fail(s, "GasNotProvisioned")
        ELSE IF /\ s.gst[g].gst_bytes >= 0
                /\ ~(s.gst[g].gst_bytes >= Wrap(s.gst[g].gst_usage + GAS_TOLL))
        THEN Fail(s, "InsufficientGas")
        ELSE Ok([s EXCEPT !.gst[g].gst_usage = Wrap(@ + GAS_TOLL)])

\* gst_bytes >= gst_usage + 100 is an unsigned comparison, made only for a row
\* whose gst_bytes is not negative; a negative gst_bytes passes uncharged
verify_account_gst_usage(s, account) ==
    LET g == Find(s.gst, TRUE, account)
    IN  IF g = 0 THEN Fail(s, "GasNotProvisioned")
        ELSE IF s.gst[g].gst_bytes < 0 THEN Ok(s)
        ELSE IF ~(s.gst[g].gst_bytes >= Wrap(s.gst[g].gst_usage + GAS_TOLL))
        THEN Fail(s, "InsufficientGas")
        ELSE Ok([s EXCEPT !.gst[g].gst_usage = Wrap(@ + GAS_TOLL)])

(* --------------------- averages and elastic limits -------------------- *)

\* add contributing units * RATE_PRECISION, not divided by the window
ema_add_undivided(e, units, ordinal, window) ==
    LET delta == ordinal - e.last_ordinal
        decayed == IF ordinal > e.last_ordinal
                   THEN IF delta >= window THEN 0
                        ELSE (e.value_ex * (window - delta)) \div window
                   ELSE e.value_ex
    IN  [last_ordinal |-> ordinal,
         value_ex |-> decayed + units * RATE_PRECISION,
         consumed |-> units]

\* exponential_moving_average_accumulator::add: decay by (window - delta)/window,
\* then add units * RATE_PRECISION / window (value_ex is 128 bits wide: no wrap)
ema_add(e, units, ordinal, window) ==
    LET delta == ordinal - e.last_ordinal
        decayed == IF ordinal > e.last_ordinal
                   THEN IF delta >= window THEN 0
                        ELSE (e.value_ex * (window - delta)) \div window
                   ELSE e.value_ex
    IN  [last_ordinal |-> ordinal,
         value_ex |-> decayed + (units * RATE_PRECISION) \div window,
         consumed |-> units]

\* exponential_moving_average_accumulator::average
ema_average(e) == e.value_ex \div RATE_PRECISION

\* impl::integer_divide_ceil
integer_divide_ceil(num, den) == (num \div den) + (IF num % den > 0 THEN 1 ELSE 0)

\* uint64_t * ratio: (x * numerator) / denominator in 128 bits, stored in 64
ratio_mul(x, r) == Wrap((x * r.numerator) \div r.denominator)

\* update_elastic_limit; params.max * params.max_multiplier is a uint64_t product
update_elastic_limit(current_limit, average_usage, params) ==
    LET result == IF average_usage > params.target
                  THEN ratio_mul(current_limit, params.contract_rate)
                  ELSE ratio_mul(current_limit, params.expand_rate)
    IN  Min(Max(result, params.max), Wrap(params.max * params.max_multiplier))

\* elastic_limit_parameters::validate
validate(params) ==
    /\ params.periods > 0
    /\ params.contract_rate.denominator > 0
    /\ params.expand_rate.denominator > 0

\* set_block_parameters validating the cpu parameters only
set_block_parameters_cpu_validated(s, cpu_limit_parameters, net_limit_parameters) ==
    IF ~validate(cpu_limit_parameters)
    THEN Fail(s, "ParameterInvalid")
    ELSE Ok([s EXCEPT !.config.cpu_limit_parameters = cpu_limit_parameters,
                      !.config.net_limit_parameters = net_limit_parameters])

\* set_block_parameters that also clamps the virtual limits to the new range
set_block_parameters_clamping(s, cpu_limit_parameters, net_limit_parameters) ==
    IF ~validate(cpu_limit_parameters) \/ ~validate(net_limit_parameters)
    THEN Fail(s, "ParameterInvalid")
    ELSE Ok([s EXCEPT !.config.cpu_limit_parameters = cpu_limit_parameters,
                      !.config.net_limit_parameters = net_limit_parameters,
                      !.state.virtual_cpu_limit = Max(@, cpu_limit_parameters.max),
                      !.state.virtual_net_limit = Max(@, net_limit_parameters.max)])

set_block_parameters(s, cpu_limit_parameters, net_limit_parameters) ==
    IF ~validate(cpu_limit_parameters) \/ ~validate(net_limit_parameters)
    THEN Fail(s, "ParameterInvalid")
    ELSE Ok([s EXCEPT !.config.cpu_limit_parameters = cpu_limit_parameters,
                      !.config.net_limit_parameters = net_limit_parameters])

\* process_block_usage with the virtual limits updated before the averages
process_block_usage_stale_average(s, block_num) ==
    LET cfg == s.config
        cpu == ema_add(s.state.average_block_cpu_usage, s.state.pending_cpu_usage,
                       block_num, cfg.cpu_limit_parameters.periods)
        net == ema_add(s.state.average_block_net_usage, s.state.pending_net_usage,
                       block_num, cfg.net_limit_parameters.periods)
    IN  Ok([s EXCEPT
              !.state.average_block_cpu_usage = cpu,
              !.state.virtual_cpu_limit =
                  update_elastic_limit(@, ema_average(s.state.average_block_cpu_usage),
                                       cfg.cpu_limit_parameters),
              !.state.pending_cpu_usage = 0,
              !.state.average_block_net_usage = net,
              !.state.virtual_net_limit =
                  update_elastic_limit(@, ema_average(s.state.average_block_net_usage),
                                       cfg.net_limit_parameters),
              !.state.pending_net_usage = 0])

\* process_block_usage moving a virtual limit only while some account holds
\* weight in the resource
process_block_usage_weighted(s, block_num) ==
    LET cfg == s.config
        cpu == ema_add(s.state.average_block_cpu_usage, s.state.pending_cpu_usage,
                       block_num, cfg.cpu_limit_parameters.periods)
        net == ema_add(s.state.average_block_net_usage, s.state.pending_net_usage,
                       block_num, cfg.net_limit_parameters.periods)
    IN  Ok([s EXCEPT
              !.state.average_block_cpu_usage = cpu,
              !.state.virtual_cpu_limit =
                  IF s.state.total_cpu_weight = 0 THEN @
                  ELSE update_elastic_limit(@, ema_average(cpu), cfg.cpu_limit_parameters),
              !.state.pending_cpu_usage = 0,
              !.state.average_block_net_usage = net,
              !.state.virtual_net_limit =
                  IF s.state.total_net_weight = 0 THEN @
                  ELSE update_elastic_limit(@, ema_average(net), cfg.net_limit_parameters),
              !.state.pending_net_usage = 0])

\* process_block_usage: fold the pending usage into the block average, update
\* the virtual limit from the new average, zero the pending usage; cpu, then net
process_block_usage(s, block_num) ==
    LET cfg == s.config
        cpu == ema_add(s.state.average_block_cpu_usage, s.state.pending_cpu_usage,
                       block_num, cfg.cpu_limit_parameters.periods)
        net == ema_add(s.state.average_block_net_usage, s.state.pending_net_usage,
                       block_num, cfg.net_limit_parameters.periods)
    IN  Ok([s EXCEPT
              !.state.average_block_cpu_usage = cpu,
              !.state.virtual_cpu_limit =
                  update_elastic_limit(@, ema_average(cpu), cfg.cpu_limit_parameters),
              !.state.pending_cpu_usage = 0,
              !.state.average_block_net_usage = net,
              !.state.virtual_net_limit =
                  update_elastic_limit(@, ema_average(net), cfg.net_limit_parameters),
              !.state.pending_net_usage = 0])

(* ------------------------- transaction admission ---------------------- *)

\* the accounts of a flat_set in its iteration order
RECURSIVE Sorted(_)
Sorted(accounts) ==
    IF accounts = {} THEN <<>>
    ELSE LET a == CHOOSE x \in accounts : \A y \in accounts : Rank(x) <= Rank(y)
         IN  <<a>> \o Sorted(accounts \ {a})

\* charge_account checking the cpu share whatever the sign of cpu_weight
charge_account_unsigned_weight(s, a, cpu_usage, net_usage, time_slot) ==
    LET u == FindUsage(s.usage, a)
        l == get_account_limits(s, a)
        cfg == s.config
        net == ema_add(s.usage[u].net_usage, net_usage, time_slot,
                       cfg.account_net_usage_average_window)
        cpu == ema_add(s.usage[u].cpu_usage, cpu_usage, time_slot,
                       cfg.account_cpu_usage_average_window)
        tbl == [s.usage EXCEPT ![u].net_usage = net, ![u].cpu_usage = cpu]
        cpu_used_in_window ==
            (cpu.value_ex * cfg.account_cpu_usage_average_window) \div RATE_PRECISION
        max_cpu_use_in_window ==
            (s.state.virtual_cpu_limit * cfg.account_cpu_usage_average_window
                 * l.cpu_weight) \div s.state.total_cpu_weight
        net_used_in_window ==
            (net.value_ex * cfg.account_net_usage_average_window) \div RATE_PRECISION
        max_net_use_in_window ==
            (s.state.virtual_net_limit * cfg.account_net_usage_average_window
                 * l.net_weight) \div s.state.total_net_weight
    IN  IF u = 0 \/ ~l.found THEN [usage |-> s.usage, err |-> "NotFound"]
        ELSE IF /\ s.state.total_cpu_weight > 0
                /\ ~(cpu_used_in_window <= max_cpu_use_in_window)
        THEN [usage |-> tbl, err |-> "CpuUsageExceeded"]
        ELSE IF /\ l.net_weight >= 0 /\ s.state.total_net_weight > 0
                /\ ~(net_used_in_window <= max_net_use_in_window)
        THEN [usage |-> tbl, err |-> "NetUsageExceeded"]
        ELSE [usage |-> tbl, err |-> "ok"]

\* charge_account leaving the usage of an account without limits as it was
charge_account_skipping_unlimited(s, a, cpu_usage, net_usage, time_slot) ==
    LET u == FindUsage(s.usage, a)
        l == get_account_limits(s, a)
        cfg == s.config
        net == ema_add(s.usage[u].net_usage, net_usage, time_slot,
                       cfg.account_net_usage_average_window)
        cpu == ema_add(s.usage[u].cpu_usage, cpu_usage, time_slot,
                       cfg.account_cpu_usage_average_window)
        tbl == IF l.cpu_weight < 0 /\ l.net_weight < 0 THEN s.usage
               ELSE [s.usage EXCEPT ![u].net_usage = net, ![u].cpu_usage = cpu]
        cpu_used_in_window ==
            (cpu.value_ex * cfg.account_cpu_usage_average_window) \div RATE_PRECISION
        max_cpu_use_in_window ==
            (s.state.virtual_cpu_limit * cfg.account_cpu_usage_average_window
                 * l.cpu_weight) \div s.state.total_cpu_weight
        net_used_in_window ==
            (net.value_ex * cfg.account_net_usage_average_window) \div RATE_PRECISION
        max_net_use_in_window ==
            (s.state.virtual_net_limit * cfg.account_net_usage_average_window
                 * l.net_weight) \div s.state.total_net_weight
    IN  IF u = 0 \/ ~l.found THEN [usage |-> s.usage, err |-> "NotFound"]
        ELSE IF /\ l.cpu_weight >= 0 /\ s.state.total_cpu_weight > 0
                /\ ~(cpu_used_in_window <= max_cpu_use_in_window)
        THEN [usage |-> tbl, err |-> "CpuUsageExceeded"]
        ELSE IF /\ l.net_weight >= 0 /\ s.state.total_net_weight > 0
                /\ ~(net_used_in_window <= max_net_use_in_window)
        THEN [usage |-> tbl, err |-> "NetUsageExceeded"]
        ELSE [usage |-> tbl, err |-> "ok"]

\* charge_account requiring the cpu usage to stay strictly below the share
charge_account_strict(s, a, cpu_usage, net_usage, time_slot) ==
    LET u == FindUsage(s.usage, a)
        l == get_account_limits(s, a)
        cfg == s.config
        net == ema_add(s.usage[u].net_usage, net_usage, time_slot,
                       cfg.account_net_usage_average_window)
        cpu == ema_add(s.usage[u].cpu_usage, cpu_usage, time_slot,
                       cfg.account_cpu_usage_average_window)
        tbl == [s.usage EXCEPT ![u].net_usage = net, ![u].cpu_usage = cpu]
        cpu_used_in_window ==
            (cpu.value_ex * cfg.account_cpu_usage_average_window) \div RATE_PRECISION
        max_cpu_use_in_window ==
            (s.state.virtual_cpu_limit * cfg.account_cpu_usage_average_window
                 * l.cpu_weight) \div s.state.total_cpu_weight
        net_used_in_window ==
            (net.value_ex * cfg.account_net_usage_average_window) \div RATE_PRECISION
        max_net_use_in_window ==
            (s.state.virtual_net_limit * cfg.account_net_usage_average_window
                 * l.net_weight) \div s.state.total_net_weight
    IN  IF u = 0 \/ ~l.found THEN [usage |-> s.usage, err |-> "NotFound"]
        ELSE IF /\ l.cpu_weight >= 0 /\ s.state.total_cpu_weight > 0
                /\ ~(cpu_used_in_window < max_cpu_use_in_window)
        THEN [usage |-> tbl, err |-> "CpuUsageExceeded"]
        ELSE IF /\ l.net_weight >= 0 /\ s.state.total_net_weight > 0
                /\ ~(net_used_in_window <= max_net_use_in_window)
        THEN [usage |-> tbl, err |-> "NetUsageExceeded"]
        ELSE [usage |-> tbl, err |-> "ok"]

\* charge_account comparing the usage with the whole capacity of the window,
\* not with the account's weighted part of it
charge_account_unweighted(s, a, cpu_usage, net_usage, time_slot) ==
    LET u == FindUsage(s.usage, a)
        l == get_account_limits(s, a)
        cfg == s.config
        net == ema_add(s.usage[u].net_usage, net_usage, time_slot,
                       cfg.account_net_usage_average_window)
        cpu == ema_add(s.usage[u].cpu_usage, cpu_usage, time_slot,
                       cfg.account_cpu_usage_average_window)
        tbl == [s.usage EXCEPT ![u].net_usage = net, ![u].cpu_usage = cpu]
        cpu_used_in_window ==
            (cpu.value_ex * cfg.account_cpu_usage_average_window) \div RATE_PRECISION
        max_cpu_use_in_window ==
            s.state.virtual_cpu_limit * cfg.account_cpu_usage_average_window
        net_used_in_window ==
            (net.value_ex * cfg.account_net_usage_average_window) \div RATE_PRECISION
        max_net_use_in_window ==
            s.state.virtual_net_limit * cfg.account_net_usage_average_window
    IN  IF u = 0 \/ ~l.found THEN [usage |-> s.usage, err |-> "NotFound"]
        ELSE IF /\ l.cpu_weight >= 0 /\ s.state.total_cpu_weight > 0
                /\ ~(cpu_used_in_window <= max_cpu_use_in_window)
        THEN [usage |-> tbl, err |-> "CpuUsageExceeded"]
        ELSE IF /\ l.net_weight >= 0 /\ s.state.total_net_weight > 0
                /\ ~(net_used_in_window <= max_net_use_in_window)
        THEN [usage |-> tbl, err |-> "NetUsageExceeded"]
        ELSE [usage |-> tbl, err |-> "ok"]

\* charge_account with the net share checked before the cpu share
charge_account_net_first(s, a, cpu_usage, net_usage, time_slot) ==
    LET u == FindUsage(s.usage, a)
        l == get_account_limits(s, a)
        cfg == s.config
        net == ema_add(s.usage[u].net_usage, net_usage, time_slot,
                       cfg.account_net_usage_average_window)
        cpu == ema_add(s.usage[u].cpu_usage, cpu_usage, time_slot,
                       cfg.account_cpu_usage_average_window)
        tbl == [s.usage EXCEPT ![u].net_usage = net, ![u].cpu_usage = cpu]
        cpu_used_in_window ==
            (cpu.value_ex * cfg.account_cpu_usage_average_window) \div RATE_PRECISION
        max_cpu_use_in_window ==
            (s.state.virtual_cpu_limit * cfg.account_cpu_usage_average_window
                 * l.cpu_weight) \div s.state.total_cpu_weight
        net_used_in_window ==
            (net.value_ex * cfg.account_net_usage_average_window) \div RATE_PRECISION
        max_net_use_in_window ==
            (s.state.virtual_net_limit * cfg.account_net_usage_average_window
                 * l.net_weight) \div s.state.total_net_weight
    IN  IF u = 0 \/ ~l.found THEN [usage |-> s.usage, err |-> "NotFound"]
        ELSE IF /\ l.net_weight >= 0 /\ s.state.total_net_weight > 0
                /\ ~(net_used_in_window <= max_net_use_in_window)
        THEN [usage |-> tbl, err |-> "NetUsageExceeded"]
        ELSE IF /\ l.cpu_weight >= 0 /\ s.state.total_cpu_weight > 0
                /\ ~(cpu_used_in_window <= max_cpu_use_in_window)
        THEN [usage |-> tbl, err |-> "CpuUsageExceeded"]
        ELSE [usage |-> tbl, err |-> "ok"]

\* add_transaction_usage, the body of the loop for account a: the usage table
\* it leaves and the error it throws
charge_account(s, a, cpu_usage, net_usage, time_slot) ==
    LET u == FindUsage(s.usage, a)
        l == get_account_limits(s, a)
        cfg == s.config
        net == ema_add(s.usage[u].net_usage, net_usage, time_slot,
                       cfg.account_net_usage_average_window)
        cpu == ema_add(s.usage[u].cpu_usage, cpu_usage, time_slot,
                       cfg.account_cpu_usage_average_window)
        tbl == [s.usage EXCEPT ![u].net_usage = net, ![u].cpu_usage = cpu]
        cpu_used_in_window ==
            (cpu.value_ex * cfg.account_cpu_usage_average_window) \div RATE_PRECISION
        max_cpu_use_in_window ==
            (s.state.virtual_cpu_limit * cfg.account_cpu_usage_average_window
                 * l.cpu_weight) \div s.state.total_cpu_weight
        net_used_in_window ==
            (net.value_ex * cfg.account_net_usage_average_window) \div RATE_PRECISION
        max_net_use_in_window ==
            (s.state.virtual_net_limit * cfg.account_net_usage_average_window
                 * l.net_weight) \div s.state.total_net_weight
    IN  IF u = 0 \/ ~l.found THEN [usage |-> s.usage, err |-> "NotFound"]
        ELSE IF /\ l.cpu_weight >= 0 /\ s.state.total_cpu_weight > 0
                /\ ~(cpu_used_in_window <= max_cpu_use_in_window)
        THEN [usage |-> tbl, err |-> "CpuUsageExceeded"]
        ELSE IF /\ l.net_weight >= 0 /\ s.state.total_net_weight > 0
                /\ ~(net_used_in_window <= max_net_use_in_window)
        THEN [usage |-> tbl, err |-> "NetUsageExceeded"]
        ELSE [usage |-> tbl, err |-> "ok"]

\* charge_accounts restoring the usage table when an account fails
RECURSIVE charge_accounts_undoing(_, _, _, _, _)
charge_accounts_undoing(s, todo, cpu_usage, net_usage, time_slot) ==
    LET r == charge_account(s, Head(todo), cpu_usage, net_usage, time_slot)
        s1 == [s EXCEPT !.usage = r.usage]
    IN  IF todo = <<>> THEN Ok(s)
        ELSE IF r.err # "ok" THEN Fail(s, r.err)
        ELSE charge_accounts_undoing(s1, Tail(todo), cpu_usage, net_usage, time_slot)

\* add_transaction_usage, the loop over the accounts still to charge
RECURSIVE charge_accounts(_, _, _, _, _)
charge_accounts(s, todo, cpu_usage, net_usage, time_slot) ==
    LET r == charge_account(s, Head(todo), cpu_usage, net_usage, time_slot)
        s1 == [s EXCEPT !.usage = r.usage]
    IN  IF todo = <<>> THEN Ok(s)
        ELSE IF r.err # "ok" THEN Fail(s1, r.err)
        ELSE charge_accounts(s1, Tail(todo), cpu_usage, net_usage, time_slot)

\* the two block asserts that end add_transaction_usage: the resource named by
\* the block_resource_exhausted that is thrown, cpu being asserted before net
exhausted_resource(s) ==
    IF ~(s.state.pending_cpu_usage <= s.config.cpu_limit_parameters.max) THEN "cpu"
    ELSE IF ~(s.state.pending_net_usage <= s.config.net_limit_parameters.max) THEN "net"
    ELSE "none"

add_transaction_usage(s, accounts, cpu_usage, net_usage, time_slot) ==
    LET r == charge_accounts(s, Sorted(accounts), cpu_usage, net_usage, time_slot)
        s1 == [r.s EXCEPT
                 !.state.pending_cpu_usage = Wrap(@ + cpu_usage),
                 !.state.pending_net_usage = Wrap(@ + net_usage)]
    IN  IF r.err # "ok" THEN r
        ELSE IF exhausted_resource(s1) # "none"
        THEN Fail(s1, "BlockResourceExhausted")
        ELSE Ok(s1)

\* update_account_usage adding one unit of usage instead of none
RECURSIVE update_account_usage_charging(_, _, _)
update_account_usage_charging(s, todo, time_slot) ==
    LET u == FindUsage(s.usage, Head(todo))
        s1 == [s EXCEPT
                 !.usage[u].net_usage =
                     ema_add(@, 1, time_slot, s.config.account_net_usage_average_window),
                 !.usage[u].cpu_usage =
                     ema_add(@, 1, time_slot, s.config.account_cpu_usage_average_window)]
    IN  IF todo = <<>> THEN Ok(s)
        ELSE IF u = 0 THEN Fail(s, "NotFound")
        ELSE update_account_usage_charging(s1, Tail(todo), time_slot)

\* update_account_usage, the loop over the accounts still to age, in the
\* order of the flat_set: add(0, time_slot, window) on both averages
RECURSIVE update_account_usage(_, _, _)
update_account_usage(s, todo, time_slot) ==
    LET u == FindUsage(s.usage, Head(todo))
        s1 == [s EXCEPT
                 !.usage[u].net_usage =
                     ema_add(@, 0, time_slot, s.config.account_net_usage_average_window),
                 !.usage[u].cpu_usage =
                     ema_add(@, 0, time_slot, s.config.account_cpu_usage_average_window)]
    IN  IF todo = <<>> THEN Ok(s)
        ELSE IF u = 0 THEN Fail(s, "NotFound")
        ELSE update_account_usage(s1, Tail(todo), time_slot)

\* impl::downgrade_cast<int64_t>: the value fits
fits_int64(x) == x <= INT64_MAX

\* get_account_cpu_limit_ex rounding the usage down
get_account_cpu_limit_ex_flooring(s, name, elastic) ==
    LET u == FindUsage(s.usage, name)
        l == get_account_limits(s, name)
        window_size == s.config.account_cpu_usage_average_window
        capacity == (IF elastic THEN s.state.virtual_cpu_limit
                     ELSE s.config.cpu_limit_parameters.max) * window_size
        max_user_use_in_window == (capacity * l.cpu_weight) \div s.state.total_cpu_weight
        cpu_used_in_window ==
            (s.usage[u].cpu_usage.value_ex * window_size) \div RATE_PRECISION
        available == IF max_user_use_in_window <= cpu_used_in_window THEN 0
                     ELSE max_user_use_in_window - cpu_used_in_window
    IN  IF u = 0 \/ ~l.found
        THEN [used |-> 0, available |-> 0, max |-> 0, err |-> "NotFound"]
        ELSE IF l.cpu_weight < 0 \/ s.state.total_cpu_weight = 0
        THEN [used |-> -1, available |-> -1, max |-> -1, err |-> "ok"]
        ELSE IF ~fits_int64(available) \/ ~fits_int64(cpu_used_in_window)
                \/ ~fits_int64(max_user_use_in_window)
        THEN [used |-> 0, available |-> 0, max |-> 0, err |-> "DowngradeCast"]
        ELSE [used |-> cpu_used_in_window, available |-> available,
              max |-> max_user_use_in_window, err |-> "ok"]

\* get_account_cpu_limit_ex
get_account_cpu_limit_ex(s, name, elastic) ==
    LET u == FindUsage(s.usage, name)
        l == get_account_limits(s, name)
        window_size == s.config.account_cpu_usage_average_window
        capacity == (IF elastic THEN s.state.virtual_cpu_limit
                     ELSE s.config.cpu_limit_parameters.max) * window_size
        max_user_use_in_window == (capacity * l.cpu_weight) \div s.state.total_cpu_weight
        cpu_used_in_window ==
            integer_divide_ceil(s.usage[u].cpu_usage.value_ex * window_size, RATE_PRECISION)
        available == IF max_user_use_in_window <= cpu_used_in_window THEN 0
                     ELSE max_user_use_in_window - cpu_used_in_window
    IN  IF u = 0 \/ ~l.found
        THEN [used |-> 0, available |-> 0, max |-> 0, err |-> "NotFound"]
        ELSE IF l.cpu_weight < 0 \/ s.state.total_cpu_weight = 0
        THEN [used |-> -1, available |-> -1, max |-> -1, err |-> "ok"]
        ELSE IF ~fits_int64(available) \/ ~fits_int64(cpu_used_in_window)
                \/ ~fits_int64(max_user_use_in_window)
        THEN [used |-> 0, available |-> 0, max |-> 0, err |-> "DowngradeCast"]
        ELSE [used |-> cpu_used_in_window, available |-> available,
              max |-> max_user_use_in_window, err |-> "ok"]

\* get_block_cpu_limit and get_block_net_limit: uint64_t differences
get_block_cpu_limit(s) ==
    Wrap(s.config.cpu_limit_parameters.max - s.state.pending_cpu_usage)

get_block_net_limit(s) ==
    Wrap(s.config.net_limit_parameters.max - s.state.pending_net_usage)

\* get_account_net_limit_ex
get_account_net_limit_ex(s, name, elastic) ==
    LET u == FindUsage(s.usage, name)
        l == get_account_limits(s, name)
        window_size == s.config.account_net_usage_average_window
        capacity == (IF elastic THEN s.state.virtual_net_limit
                     ELSE s.config.net_limit_parameters.max) * window_size
        max_user_use_in_window == (capacity * l.net_weight) \div s.state.total_net_weight
        net_used_in_window ==
            integer_divide_ceil(s.usage[u].net_usage.value_ex * window_size, RATE_PRECISION)
        available == IF max_user_use_in_window <= net_used_in_window THEN 0
                     ELSE max_user_use_in_window - net_used_in_window
    IN  IF u = 0 \/ ~l.found
        THEN [used |-> 0, available |-> 0, max |-> 0, err |-> "NotFound"]
        ELSE IF l.net_weight < 0 \/ s.state.total_net_weight = 0
        THEN [used |-> -1, available |-> -1, max |-> -1, err |-> "ok"]
        ELSE IF ~fits_int64(available) \/ ~fits_int64(net_used_in_window)
                \/ ~fits_int64(max_user_use_in_window)
        THEN [used |-> 0, available |-> 0, max |-> 0, err |-> "DowngradeCast"]
        ELSE [used |-> net_used_in_window, available |-> available,
              max |-> max_user_use_in_window, err |-> "ok"]

(* ------------------------------ snapshot ------------------------------ *)

\* the six tables of a store, each the sequence of its rows in id order; the
\* state and config tables hold one row once the database is initialized
Tables(s) ==
    [limits |-> s.limits, usage |-> s.usage, gst |-> s.gst,
     activation |-> s.activation, state |-> <<s.state>>, config |-> <<s.config>>]

\* the tables of a store whose indices were added and nothing else
EmptyTables ==
    [limits |-> <<>>, usage |-> <<>>, gst |-> <<>>, activation |-> <<>>,
     state |-> <<>>, config |-> <<>>]

\* the indices in the order walk_indices visits them
resource_index_set == <<"limits", "usage", "gst", "activation", "state", "config">>

\* an accumulator and an elastic_limit_parameters as the values of their fields
pack_accumulator(e) == <<e.last_ordinal, e.value_ex, e.consumed>>

unpack_accumulator(q) ==
    [last_ordinal |-> q[1], value_ex |-> q[2], consumed |-> q[3]]

pack_parameters(p) ==
    <<p.target, p.max, p.periods, p.max_multiplier,
      p.contract_rate.numerator, p.contract_rate.denominator,
      p.expand_rate.numerator, p.expand_rate.denominator>>

unpack_parameters(q) ==
    [target |-> q[1], max |-> q[2], periods |-> q[3], max_multiplier |-> q[4],
     contract_rate |-> Ratio(q[5], q[6]), expand_rate |-> Ratio(q[7], q[8])]

\* section.add_row: a row of an index as the values of its fields in turn
add_row(index, row) ==
    CASE index = "limits" ->
           <<row.pending, row.owner, row.net_weight, row.cpu_weight, row.ram_bytes>>
      [] index = "usage" ->
           <<row.owner>> \o pack_accumulator(row.net_usage)
               \o pack_accumulator(row.cpu_usage) \o <<row.ram_usage>>
      [] index = "gst" ->
           <<row.pending, row.owner, row.gst_bytes, row.gst_usage>>
      [] index = "activation" ->
           <<row.pending, row.owner, row.is_activation>>
      [] index = "state" ->
           pack_accumulator(row.average_block_net_usage)
               \o pack_accumulator(row.average_block_cpu_usage)
               \o <<row.pending_net_usage, row.pending_cpu_usage,
                    row.total_net_weight, row.total_cpu_weight,
                    row.total_ram_bytes,
                    row.virtual_net_limit, row.virtual_cpu_limit>>
      [] index = "config" ->
           pack_parameters(row.cpu_limit_parameters)
               \o pack_parameters(row.net_limit_parameters)
               \o <<row.account_cpu_usage_average_window,
                    row.account_net_usage_average_window>>

\* section.read_row: the row of an index that a sequence of values fills
read_row(index, q) ==
    CASE index = "limits" ->
           [owner |-> q[2], pending |-> q[1],
            ram_bytes |-> q[5], net_weight |-> q[3], cpu_weight |-> q[4]]
      [] index = "usage" ->
           [owner |-> q[1], net_usage |-> unpack_accumulator(SubSeq(q, 2, 4)),
            cpu_usage |-> unpack_accumulator(SubSeq(q, 5, 7)), ram_usage |-> q[8]]
      [] index = "gst" ->
           [owner |-> q[2], pending |-> q[1], gst_bytes |-> q[3], gst_usage |-> q[4]]
      [] index = "activation" ->
           [owner |-> q[2], pending |-> q[1], is_activation |-> q[3]]
      [] index = "state" ->
           [average_block_net_usage |-> unpack_accumulator(SubSeq(q, 1, 3)),
            average_block_cpu_usage |-> unpack_accumulator(SubSeq(q, 4, 6)),
            pending_net_usage |-> q[7], pending_cpu_usage |-> q[8],
            total_net_weight |-> q[9], total_cpu_weight |-> q[10],
            total_ram_bytes |-> q[11],
            virtual_net_limit |-> q[12], virtual_cpu_limit |-> q[13]]
      [] index = "config" ->
           [cpu_limit_parameters |-> unpack_parameters(SubSeq(q, 1, 8)),
            net_limit_parameters |-> unpack_parameters(SubSeq(q, 9, 16)),
            account_cpu_usage_average_window |-> q[17],
            account_net_usage_average_window |-> q[18]]

\* a row of an index as its declaration constructs it
DefaultRow(index) ==
    CASE index = "limits" -> DefaultLimits("")
      [] index = "usage" -> DefaultUsage("")
      [] index = "gst" ->
           [owner |-> "", pending |-> FALSE, gst_bytes |-> -1, gst_usage |-> 0]
      [] index = "activation" ->
           [owner |-> "", pending |-> FALSE, is_activation |-> FALSE]
      [] index = "state" -> DefaultState
      [] index = "config" -> DefaultConfig

\* add_to_snapshot: one section per index, in the order of the index set, with
\* the rows of the index as walk visits them
add_to_snapshot(t) ==
    [k \in DOMAIN resource_index_set |->
        [section |-> resource_index_set[k],
         rows |-> [i \in DOMAIN t[resource_index_set[k]] |->
                      add_row(resource_index_set[k], t[resource_index_set[k]][i])]]]

\* the body of read_section as a loop that creates a row before it asks
\* whether the section has one
RECURSIVE read_section_creating_first(_, _, _)
read_section_creating_first(index, tbl, rows) ==
    IF rows = <<>> THEN Append(tbl, DefaultRow(index))
    ELSE IF Tail(rows) = <<>> THEN Append(tbl, read_row(index, Head(rows)))
    ELSE read_section_creating_first(index, Append(tbl, read_row(index, Head(rows))),
                                     Tail(rows))

\* the body of read_section: more = !section.empty(), and while more, a row
\* is created and read_row fills it and tells whether another follows
RECURSIVE read_section(_, _, _)
read_section(index, tbl, rows) ==
    IF rows = <<>> THEN tbl
    ELSE read_section(index, Append(tbl, read_row(index, Head(rows))), Tail(rows))

\* read_from_snapshot into the tables t: for each index in the order of the
\* index set, the rows of its section are created in turn
read_from_snapshot(t, snapshot) ==
    [index \in DOMAIN t |->
        LET k == CHOOSE j \in DOMAIN resource_index_set :
                     resource_index_set[j] = index
        IN  read_section(index, t[index], snapshot[k].rows)]

(* ------------------------------ actions ------------------------------- *)

\* the store a handler leaves, and in ret what the caller saw of the call: the
\* handler, its error, its value, and whether limits were staged when it was made
ApplyStore(op, r) ==
    /\ limits' = r.s.limits
    /\ usage' = r.s.usage
    /\ gst' = r.s.gst
    /\ activation' = r.s.activation
    /\ state' = r.s.state
    /\ config' = r.s.config
    /\ ret' = [op |-> op, err |-> r.err, val |-> r.val,
               staged |-> \E i \in DOMAIN limits : limits[i].pending]

Apply(op, r) == ApplyStore(op, r) /\ UNCHANGED probe

\* probe holds the arguments and the result of a function evaluated on its own;
\* result -1: not evaluated
NoProbe == [current_limit |-> 0, average_usage |-> 0, params |-> DefaultParams,
            result |-> -1]

\* the previous call returned: a store left by a throw is rolled back, not used
Running == ret.err = "ok"

Init ==
    /\ limits = initialize_database.limits
    /\ usage = initialize_database.usage
    /\ gst = initialize_database.gst
    /\ activation = initialize_database.activation
    /\ state = initialize_database.state
    /\ config = initialize_database.config
    /\ ret = [op |-> "initialize_database", err |-> "ok", val |-> FALSE,
              staged |-> FALSE]
    /\ probe = NoProbe

InitializeAccount(a) ==
    /\ Running
    /\ Apply("initialize_account", initialize_account(Store, a))

\* the (ram_bytes, net_weight, cpu_weight) a caller stages
LimitArgs ==
    {<<-1, -1, -1>>, <<0, 1, INT64_MAX>>, <<INT64_MAX, INT64_MAX, 1>>}

SetAccountLimits(a, l) ==
    /\ Running
    /\ Apply("set_account_limits", set_account_limits(Store, a, l[1], l[2], l[3]))

ProcessAccountLimitUpdates ==
    /\ Running
    /\ Apply("process_account_limit_updates", process_account_limit_updates(Store))

\* the ram_delta of a transaction
RamDeltas == {INT64_MAX, -INT64_MAX}

AddPendingRamUsage(a, d, wraps) ==
    /\ Running
    /\ Apply("add_pending_ram_usage", add_pending_ram_usage(Store, a, d, wraps))

\* the gst_bytes a caller sets
GstArgs == {0, INT64_MAX}

SetGstLimits(a, g) ==
    /\ Running
    /\ Apply("set_gst_limits", set_gst_limits(Store, a, g))

SetGasLimits(flag) ==
    /\ Running
    /\ Apply("set_gas_limits", set_gas_limits(Store, flag))

\* elastic_limit_parameters a caller sets: a larger block, a zero multiplier,
\* a max * max_multiplier past 64 bits, and periods = 0
LargerParams ==
    [target |-> 2, max |-> INT64_MAX, periods |-> 1, max_multiplier |-> 2,
     contract_rate |-> Ratio(1, 2), expand_rate |-> Ratio(3, 2)]

ZeroMultiplierParams == [DefaultParams EXCEPT !.max_multiplier = 0]

WideParams == [LargerParams EXCEPT !.max_multiplier = 3]

ZeroPeriodsParams == [DefaultParams EXCEPT !.periods = 0]

\* rates with a zero denominator
ZeroContractParams == [LargerParams EXCEPT !.contract_rate = Ratio(1, 0)]

ZeroExpandParams == [LargerParams EXCEPT !.expand_rate = Ratio(1, 0)]

BlockParamArgs ==
    {<<LargerParams, DefaultParams>>, <<ZeroMultiplierParams, LargerParams>>,
     <<WideParams, DefaultParams>>,
     <<ZeroPeriodsParams, DefaultParams>>, <<DefaultParams, ZeroPeriodsParams>>}

SetBlockParameters(p) ==
    /\ Running
    /\ Apply("set_block_parameters", set_block_parameters(Store, p[1], p[2]))

\* the last block number and time slot a caller passes
MaxOrdinal == 2

Ordinals == 0 .. MaxOrdinal

\* the (cpu_usage, net_usage) of a transaction
UsageArgs == {<<1, 1>>, <<UINT64_MAX, 0>>}

\* callers pass time slots that never decrease
AddTransactionUsage(accounts, u, time_slot) ==
    /\ Running
    /\ \A a \in accounts :
         FindUsage(usage, a) # 0 =>
             /\ usage[FindUsage(usage, a)].cpu_usage.last_ordinal <= time_slot
             /\ usage[FindUsage(usage, a)].net_usage.last_ordinal <= time_slot
    /\ Apply("add_transaction_usage",
             add_transaction_usage(Store, accounts, u[1], u[2], time_slot))

\* called once per block: callers pass block numbers that increase
ProcessBlockUsage(block_num) ==
    /\ Running
    /\ state.average_block_cpu_usage.last_ordinal < block_num
    /\ state.average_block_net_usage.last_ordinal < block_num
    /\ Apply("process_block_usage", process_block_usage(Store, block_num))

(* --------------------------- specifications --------------------------- *)

\* account limits: creation, staging and the commit at the block boundary
NextLimits ==
    \/ \E a \in Accounts : InitializeAccount(a)
    \/ \E a \in Accounts : \E l \in LimitArgs : SetAccountLimits(a, l)
    \/ ProcessAccountLimitUpdates

SpecLimits == Init /\ [][NextLimits]_vars

\* staged rows of both two-phase tables: limits and gas balances of two owners
StagingAccounts == {"alice", "gstio"}

NextStaging ==
    \/ \E a \in StagingAccounts : InitializeAccount(a)
    \/ \E a \in StagingAccounts : SetAccountLimits(a, <<0, 1, INT64_MAX>>)
    \/ \E a \in StagingAccounts : \E g \in GstArgs : SetGstLimits(a, g)
    \/ \E d \in RamDeltas : \E w \in BOOLEAN : AddPendingRamUsage("alice", d, w)
    \/ \E flag \in BOOLEAN : SetGasLimits(flag)
    \/ ProcessAccountLimitUpdates

SpecStaging == Init /\ [][NextStaging]_vars

\* block usage: transactions of no authorizer, the block boundary, new parameters
NextBlock ==
    \/ \E p \in BlockParamArgs : SetBlockParameters(p)
    \/ \E u \in UsageArgs : \E t \in Ordinals : AddTransactionUsage({}, u, t)
    \/ \E b \in Ordinals : ProcessBlockUsage(b)

SpecBlock == Init /\ [][NextBlock]_vars

\* update_elastic_limit on its own: every limit and parameter set of the scaled
\* width that validate accepts
ElasticParams ==
    {p \in [target : {0, 2}, max : 0 .. UINT64_MAX, periods : {0, 1},
            max_multiplier : 0 .. 3,
            contract_rate : {Ratio(1, 2), Ratio(0, 1), Ratio(1, 0)},
            expand_rate : {Ratio(2, 1), Ratio(UINT64_MAX, 1)}] : validate(p)}

InitElastic ==
    /\ limits = initialize_database.limits
    /\ usage = initialize_database.usage
    /\ gst = initialize_database.gst
    /\ activation = initialize_database.activation
    /\ state = initialize_database.state
    /\ config = initialize_database.config
    /\ ret = [op |-> "initialize_database", err |-> "ok", val |-> FALSE,
              staged |-> FALSE]
    /\ probe \in [current_limit : 0 .. UINT64_MAX, average_usage : {0, 3},
                   params : ElasticParams, result : {-1}]

UpdateElasticLimit ==
    /\ probe.result = -1
    /\ probe' = [probe EXCEPT !.result =
                     update_elastic_limit(probe.current_limit, probe.average_usage,
                                          probe.params)]
    /\ UNCHANGED <<limits, usage, gst, activation, state, config, ret>>

SpecElastic == InitElastic /\ [][UpdateElasticLimit]_vars

\* admission of transactions of two authorizers within one block of max 4:
\* the block parameters, limits and usages of the first end-to-end scenario
\* (max 1000, weights 100 of 200, usages 600 and 400) in the scaled width,
\* where max plus one usage stays below UINT64_MAX as it does there
ScenarioParams ==
    [target |-> 1, max |-> 4, periods |-> 1, max_multiplier |-> 1,
     contract_rate |-> Ratio(1, 2), expand_rate |-> Ratio(2, 1)]

\* the store once the scenario's parameters are set and a block boundary has
\* brought the virtual limits to their max
ScenarioGenesis ==
    process_block_usage(
        set_block_parameters(initialize_database, ScenarioParams, ScenarioParams).s,
        1).s

InitAdmission ==
    /\ limits = ScenarioGenesis.limits
    /\ usage = ScenarioGenesis.usage
    /\ gst = ScenarioGenesis.gst
    /\ activation = ScenarioGenesis.activation
    /\ state = ScenarioGenesis.state
    /\ config = ScenarioGenesis.config
    /\ ret = [op |-> "process_block_usage", err |-> "ok", val |-> FALSE,
              staged |-> FALSE]
    /\ probe = NoProbe

\* (ram_bytes, net_weight, cpu_weight) of an authorizer with a share
ShareLimits == <<-1, 1, 1>>

\* the (cpu_usage, net_usage) of the admitted transactions
AdmissionUsage == {<<3, 0>>, <<2, 0>>, <<0, 3>>}

AuthorizerSets == SUBSET StagingAccounts \ {{}}

\* the time slot of the scenario's transactions
ScenarioSlot == 0

NextAdmission ==
    \/ \E a \in StagingAccounts : InitializeAccount(a)
    \/ \E a \in StagingAccounts : SetAccountLimits(a, ShareLimits)
    \/ ProcessAccountLimitUpdates
    \/ \E accounts \in AuthorizerSets : \E u \in AdmissionUsage :
           AddTransactionUsage(accounts, u, ScenarioSlot)

SpecAdmission == InitAdmission /\ [][NextAdmission]_vars

\* new block parameters while an account has rows and the block has usage:
\* two pairs validate accepts, and pairs with periods = 0 or a zero denominator
\* in either argument
ParameterChanges ==
    {<<LargerParams, DefaultParams>>, <<ScenarioParams, LargerParams>>,
     <<ZeroPeriodsParams, DefaultParams>>, <<DefaultParams, ZeroPeriodsParams>>,
     <<ZeroContractParams, DefaultParams>>, <<LargerParams, ZeroExpandParams>>}

NextParameters ==
    \/ InitializeAccount("alice")
    \/ SetAccountLimits("alice", ShareLimits)
    \/ ProcessAccountLimitUpdates
    \/ \E p \in ParameterChanges : SetBlockParameters(p)
    \/ \E t \in Ordinals : AddTransactionUsage({}, <<1, 1>>, t)
    \/ \E b \in Ordinals : ProcessBlockUsage(b)

SpecParameters == Init /\ [][NextParameters]_vars

\* sequences of add_pending_ram_usage calls for one account: the ram usage it
\* had before, whether gas is active and whether it has a gas row already
MaxCalls == 3

\* ram_delta values, INT64_MIN among them: -ram_delta is then 2^63 as uint64_t
\* whether or not the negation wraps
RamDeltaArgs == {INT64_MAX, 1, -1, -INT64_MAX - 1}

RamBases == {<<>>, <<INT64_MAX>>, <<INT64_MAX, INT64_MAX>>}

RECURSIVE AddAll(_, _)
AddAll(s, deltas) ==
    IF deltas = <<>> THEN s
    ELSE AddAll(add_pending_ram_usage(s, "alice", Head(deltas), FALSE).s, Tail(deltas))

RECURSIVE Sum(_)
Sum(q) == IF q = <<>> THEN 0 ELSE Head(q) + Sum(Tail(q))

RamStart(base, provisioned, active) ==
    LET s1 == AddAll(initialize_account(initialize_database, "alice").s, base)
        s2 == IF provisioned THEN set_gst_limits(s1, "alice", INT64_MAX).s ELSE s1
    IN  IF active THEN set_gas_limits(s2, TRUE).s ELSE s2

\* probe holds the deltas to pass, how many were passed, the sum of those
\* accepted, and the start
InitRam ==
    \E base \in RamBases : \E provisioned \in BOOLEAN : \E active \in BOOLEAN :
        /\ limits = RamStart(base, provisioned, active).limits
        /\ usage = RamStart(base, provisioned, active).usage
        /\ gst = RamStart(base, provisioned, active).gst
        /\ activation = RamStart(base, provisioned, active).activation
        /\ state = RamStart(base, provisioned, active).state
        /\ config = RamStart(base, provisioned, active).config
        /\ ret = [op |-> IF active THEN "set_gas_limits" ELSE "initialize_account",
                  err |-> "ok", val |-> FALSE, staged |-> FALSE]
        /\ probe \in [deltas : [1 .. MaxCalls -> RamDeltaArgs], at : {0}, sum : {0},
                       base : {Sum(base)}, active : {active}]

AddNextRamDelta ==
    /\ Running
    /\ probe.at < Len(probe.deltas)
    /\ \E wraps \in BOOLEAN :
           LET r == add_pending_ram_usage(Store, "alice", probe.deltas[probe.at + 1], wraps)
           IN  /\ ApplyStore("add_pending_ram_usage", r)
               /\ probe' = [probe EXCEPT
                               !.at = @ + 1,
                               !.sum = IF r.err = "ok"
                                       THEN @ + probe.deltas[probe.at + 1] ELSE @]

SpecRam == InitRam /\ [][AddNextRamDelta]_vars

\* the gas overlay: the first account created spends ram and gas, and alice
\* created after it stands by
GasRamDeltas == {0, 1, -1}

GasGstArgs == {-1, 2, INT64_MAX}

VerifyAccountGstUsage(a) ==
    /\ Running
    /\ Apply("verify_account_gst_usage", verify_account_gst_usage(Store, a))

NextGas ==
    \/ \E a \in Accounts : (usage = <<>> \/ a = "alice") /\ InitializeAccount(a)
    \/ \E d \in GasRamDeltas : \E w \in BOOLEAN :
           usage # <<>> /\ AddPendingRamUsage(usage[1].owner, d, w)
    \/ \E g \in GasGstArgs : usage # <<>> /\ SetGstLimits(usage[1].owner, g)
    \/ usage # <<>> /\ VerifyAccountGstUsage(usage[1].owner)
    \/ \E flag \in BOOLEAN : SetGasLimits(flag)

SpecGas == Init /\ [][NextGas]_vars

\* limits of two accounts set again and again between commits: unlimited, zero
\* and two finite values of ram_bytes, over staged and committed old values
DecreaseArgs == {<<-1, -1, -1>>, <<0, 1, 1>>, <<1, 1, 1>>, <<INT64_MAX, 1, 1>>}

NextDecrease ==
    \/ \E a \in StagingAccounts : InitializeAccount(a)
    \/ \E a \in StagingAccounts : \E l \in DecreaseArgs : SetAccountLimits(a, l)
    \/ ProcessAccountLimitUpdates

SpecDecrease == Init /\ [][NextDecrease]_vars

\* stores to take snapshots of: rows in all six tables, staged and committed
\* limits, usage averages, and a state and a config row away from their defaults
NextSnapshot ==
    \/ InitializeAccount("alice")
    \/ SetAccountLimits("alice", ShareLimits)
    \/ ProcessAccountLimitUpdates
    \/ SetGstLimits("gstio", INT64_MAX)
    \/ SetGasLimits(TRUE)
    \/ AddPendingRamUsage("alice", INT64_MAX, FALSE)
    \/ SetBlockParameters(<<LargerParams, DefaultParams>>)
    \/ AddTransactionUsage({"alice"}, <<1, 1>>, 0)
    \/ ProcessBlockUsage(1)

SpecSnapshot == Init /\ [][NextSnapshot]_vars

\* fair shares over time: two accounts with small and large weights, alice's
\* transactions and the aging of her averages at time slots that do not fall
ShareArgs == {<<-1, 1, 1>>, <<-1, INT64_MAX, INT64_MAX>>}

UpdateAccountUsage(accounts, time_slot) ==
    /\ Running
    /\ \A a \in accounts :
         FindUsage(usage, a) # 0 =>
             /\ usage[FindUsage(usage, a)].cpu_usage.last_ordinal <= time_slot
             /\ usage[FindUsage(usage, a)].net_usage.last_ordinal <= time_slot
    /\ Apply("update_account_usage",
             update_account_usage(Store, Sorted(accounts), time_slot))

NextShare ==
    \/ \E a \in StagingAccounts : InitializeAccount(a)
    \/ \E a \in StagingAccounts : \E l \in ShareArgs : SetAccountLimits(a, l)
    \/ ProcessAccountLimitUpdates
    \/ \E t \in Ordinals : AddTransactionUsage({"alice"}, <<1, 1>>, t)
    \/ \E t \in Ordinals :
           FindUsage(usage, "alice") # 0 /\ UpdateAccountUsage({"alice"}, t)

SpecShare == Init /\ [][NextShare]_vars

\* one accumulator on its own: probe holds it, its window, the largest input
\* added and the number of adds; inputs are added at ordinals that increase
EmaWindows == {1, 2, 3}

InitEma ==
    /\ limits = initialize_database.limits
    /\ usage = initialize_database.usage
    /\ gst = initialize_database.gst
    /\ activation = initialize_database.activation
    /\ state = initialize_database.state
    /\ config = initialize_database.config
    /\ ret = [op |-> "initialize_database", err |-> "ok", val |-> FALSE,
              staged |-> FALSE]
    /\ probe \in [ema : {EmaZero}, window : EmaWindows, largest : {0}, adds : {0}]

EmaAdd(units, ordinal) ==
    /\ Running
    /\ ordinal > probe.ema.last_ordinal
    /\ probe' = [probe EXCEPT
                    !.ema = ema_add(@, units, ordinal, probe.window),
                    !.largest = Max(@, units),
                    !.adds = @ + 1]
    /\ UNCHANGED <<limits, usage, gst, activation, state, config, ret>>

NextEma == \E units \in 0 .. UINT64_MAX : \E ordinal \in Ordinals : EmaAdd(units, ordinal)

SpecEma == InitEma /\ [][NextEma]_vars

(* ------------------------- claims: account limits --------------------- *)

RECURSIVE SumPositive(_)
SumPositive(q) ==
    IF q = <<>> THEN 0
    ELSE (IF Head(q) > 0 THEN Head(q) ELSE 0) + SumPositive(Tail(q))

\* the committed rows of the AccountLimits table
Committed(tbl) == SelectSeq(tbl, LAMBDA r : ~r.pending)

\* the pending rows of a table
Pending(tbl) == SelectSeq(tbl, LAMBDA r : r.pending)

CommittedRam == [i \in DOMAIN Committed(limits) |-> Committed(limits)[i].ram_bytes]

CommittedCpu == [i \in DOMAIN Committed(limits) |-> Committed(limits)[i].cpu_weight]

CommittedNet == [i \in DOMAIN Committed(limits) |-> Committed(limits)[i].net_weight]

TotalsConsistent ==
    /\ state.total_cpu_weight = SumPositive(CommittedCpu)
    /\ state.total_net_weight = SumPositive(CommittedNet)
    /\ state.total_ram_bytes = SumPositive(CommittedRam)

\* C1: after every call of initialize_account, set_account_limits and
\* process_account_limit_updates that returned, each total of the state row is
\* the sum of the positive committed values of its field.
C1_TotalsConsistency == Running => TotalsConsistent

\* a commit has applied staged limits and left two positive cpu weights summed
C1_Witness ==
    /\ ret.op = "process_account_limit_updates" /\ ret.err = "ok" /\ ret.staged
    /\ state.total_cpu_weight = INT64_MAX + 1
    /\ state.total_ram_bytes = INT64_MAX
    /\ \E i \in DOMAIN limits : ~limits[i].pending /\ limits[i].cpu_weight = -1

\* the three limit fields of a row
Values(r) == <<r.ram_bytes, r.net_weight, r.cpu_weight>>

\* C2: a process_account_limit_updates that returns leaves no pending
\* AccountLimits row; the committed row of every owner that had a pending row
\* holds the pending row's three values, every other committed row is as before.
C2_CommitPostState ==
    [][(ret'.op = "process_account_limit_updates" /\ ret'.err = "ok") =>
         /\ \A i \in DOMAIN limits' : ~limits'[i].pending
         /\ \A a \in Accounts :
              LET p == Find(limits, TRUE, a)
                  c == Find(limits, FALSE, a)
                  d == Find(limits', FALSE, a)
              IN  /\ (c = 0) = (d = 0)
                  /\ Cardinality(Rows(limits', FALSE, a)) = Cardinality(Rows(limits, FALSE, a))
                  /\ p # 0 => d # 0 /\ Values(limits'[d]) = Values(limits[p])
                  /\ (p = 0 /\ c # 0) => limits'[d] = limits[c]]_vars

\* a commit that found staged rows has returned, one committed row now holds
\* staged values and another still the defaults
C2_Witness ==
    /\ ret.op = "process_account_limit_updates" /\ ret.err = "ok" /\ ret.staged
    /\ \E i, j \in DOMAIN limits :
         /\ Values(limits[i]) = <<0, 1, INT64_MAX>>
         /\ Values(limits[j]) = <<-1, -1, -1>>
    /\ Len(limits) = 3

\* C5: get_account_limits hands back the three values of the owner's pending
\* row when there is one and of its committed row otherwise, all three from the
\* same row.
C5_PendingFirst ==
    \A a \in Accounts :
        LET g == <<get_account_limits(Store, a).ram_bytes,
                   get_account_limits(Store, a).net_weight,
                   get_account_limits(Store, a).cpu_weight>>
        IN  /\ Rows(limits, TRUE, a) # {} =>
                 \E i \in Rows(limits, TRUE, a) : g = Values(limits[i])
            /\ (Rows(limits, TRUE, a) = {} /\ Rows(limits, FALSE, a) # {}) =>
                 \E i \in Rows(limits, FALSE, a) : g = Values(limits[i])

\* an owner whose pending row differs from its committed row in every field
C5_Witness ==
    \E a \in Accounts :
        /\ Find(limits, TRUE, a) # 0 /\ Find(limits, FALSE, a) # 0
        /\ limits[Find(limits, TRUE, a)].ram_bytes # limits[Find(limits, FALSE, a)].ram_bytes
        /\ limits[Find(limits, TRUE, a)].net_weight # limits[Find(limits, FALSE, a)].net_weight
        /\ limits[Find(limits, TRUE, a)].cpu_weight # limits[Find(limits, FALSE, a)].cpu_weight
        /\ get_account_limits(Store, a).found

\* C6: set_account_limits changes no committed AccountLimits row, no total, no
\* usage row and no gas row; of the pending rows only one owner's is created or
\* modified.
C6_StagesOnly ==
    [][ret'.op = "set_account_limits" =>
         /\ Committed(limits') = Committed(limits)
         /\ state' = state
         /\ usage' = usage
         /\ gst' = gst /\ activation' = activation
         /\ \E a \in Accounts :
              \A i \in DOMAIN Pending(limits) :
                  Pending(limits)[i].owner # a =>
                      /\ i \in DOMAIN Pending(limits')
                      /\ Pending(limits')[i] = Pending(limits)[i]]_vars

\* set_account_limits has returned, the owner's staged row differs from its
\* committed row, and the totals still count the committed values
C6_Witness ==
    /\ ret.op = "set_account_limits" /\ ret.err = "ok"
    /\ \E i, j \in DOMAIN limits :
         /\ limits[i].owner = limits[j].owner
         /\ limits[i].pending /\ ~limits[j].pending
         /\ limits[j].cpu_weight = INT64_MAX /\ limits[i].cpu_weight = 1
    /\ state.total_cpu_weight >= INT64_MAX

\* C3: in every reachable state each owner has at most one pending
\* AccountLimits row and at most one pending GasBalance row.
C3_OnePendingRowPerOwner ==
    \A a \in Accounts :
        /\ Cardinality(Rows(limits, TRUE, a)) <= 1
        /\ Cardinality(Rows(gst, TRUE, a)) <= 1

\* both owners have limits staged, and the gas row of alice was found again by a
\* second charge and by set_gst_limits after add_pending_ram_usage created it
C3_Witness ==
    /\ \A a \in StagingAccounts : Rows(limits, TRUE, a) # {} /\ Rows(gst, TRUE, a) # {}
    /\ \E i \in Rows(gst, TRUE, "alice") :
         gst[i].gst_usage = 2 * INT64_MAX /\ gst[i].gst_bytes = INT64_MAX
    /\ ret.op = "set_account_limits" /\ ret.staged

(* --------------------- claims: effect of staged limits ----------------- *)

\* the store had set_account_limits not been called since the last commit
Unstaged == [Store EXCEPT !.limits = Committed(limits)]

\* C4: while an owner's limits are staged and not yet committed,
\* add_transaction_usage, verify_account_ram_usage and the cpu and net limit
\* accessors give for that owner what they would give without the staged row.
C4_EffectOnlyAtBoundary ==
    \A a \in Accounts :
        (Rows(limits, TRUE, a) # {} /\ Running) =>
            /\ verify_account_ram_usage(Store, a) = verify_account_ram_usage(Unstaged, a)
            /\ get_account_cpu_limit_ex(Store, a, TRUE)
                   = get_account_cpu_limit_ex(Unstaged, a, TRUE)
            /\ get_account_net_limit_ex(Store, a, TRUE)
                   = get_account_net_limit_ex(Unstaged, a, TRUE)
            /\ \A u \in UsageArgs :
                   add_transaction_usage(Store, {a}, u[1], u[2], MaxOrdinal).err
                       = add_transaction_usage(Unstaged, {a}, u[1], u[2], MaxOrdinal).err

\* a staged ram limit of 0 makes the ram check fail for usage the committed,
\* unlimited row allows
C4_Witness ==
    /\ Running
    /\ Rows(limits, TRUE, "alice") # {}
    /\ verify_account_ram_usage(Store, "alice") = "RamUsageExceeded"
    /\ verify_account_ram_usage(Unstaged, "alice") = "ok"

(* --------------------------- claims: block usage ----------------------- *)

\* C7: an add_transaction_usage that returns leaves both pending usages at most
\* their params.max, and a call that would push one above its max fails with
\* BlockResourceExhausted.
C7_BlockAdmissionBound ==
    [][\A u \in UsageArgs : \A t \in Ordinals :
           AddTransactionUsage({}, u, t) =>
               /\ ret'.err = "ok" =>
                      /\ state'.pending_cpu_usage <= config'.cpu_limit_parameters.max
                      /\ state'.pending_net_usage <= config'.net_limit_parameters.max
               /\ (\/ state.pending_cpu_usage + u[1] > config.cpu_limit_parameters.max
                   \/ state.pending_net_usage + u[2] > config.net_limit_parameters.max)
                      => ret'.err = "BlockResourceExhausted"]_vars

\* a pending cpu usage of 1 and a cpu_usage of UINT64_MAX were admitted: the
\* sum wrapped to 0
C7_Witness ==
    /\ ret.op = "add_transaction_usage" /\ ret.err = "ok"
    /\ state.pending_cpu_usage = 0 /\ state.pending_net_usage = 1
    /\ state.average_block_net_usage.consumed = 0

\* v lies in [max, max * max_multiplier]
InRange(v, p) == p.max <= v /\ v <= p.max * p.max_multiplier

\* C8: in every state reachable through set_block_parameters,
\* add_transaction_usage and process_block_usage both virtual limits lie in
\* [max, max * max_multiplier] of the stored parameters.
C8_VirtualLimitRange ==
    /\ InRange(state.virtual_cpu_limit, config.cpu_limit_parameters)
    /\ InRange(state.virtual_net_limit, config.net_limit_parameters)

\* process_block_usage under accepted parameters with max_multiplier = 0 has
\* left the cpu limit at 0, below max
C8_Witness ==
    /\ ret.op = "process_block_usage" /\ ret.err = "ok"
    /\ config.cpu_limit_parameters.max_multiplier = 0
    /\ config.cpu_limit_parameters.max > 0
    /\ state.virtual_cpu_limit = 0

\* update_elastic_limit has been evaluated
Evaluated == probe.result # -1

\* C9: for every limit, average and parameter set validate accepts,
\* update_elastic_limit returns a value in
\* [params.max, params.max * params.max_multiplier].
C9_ElasticClamp == Evaluated => InRange(probe.result, probe.params)

\* accepted parameters with max_multiplier = 0 and max > 0 gave 0
C9_Witness ==
    /\ Evaluated
    /\ probe.params.max_multiplier = 0
    /\ probe.params.max = UINT64_MAX
    /\ probe.current_limit = UINT64_MAX
    /\ probe.result = 0

\* the clamp of update_elastic_limit
Clamp(x, p) == Min(Max(x, p.max), Wrap(p.max * p.max_multiplier))

\* what process_block_usage makes of one resource: the average a, the pending
\* usage u and the virtual limit v under parameters p become a2, u2 and v2
Folded(a, u, v, p, a2, u2, v2) ==
    /\ a2 = ema_add(a, u, a2.last_ordinal, p.periods)
    /\ v2 = IF ema_average(a2) > p.target
            THEN Clamp(ratio_mul(v, p.contract_rate), p)
            ELSE Clamp(ratio_mul(v, p.expand_rate), p)
    /\ u2 = 0

\* C10: process_block_usage folds the pending cpu usage into the block average
\* at block_num over cpu_params.periods, sets the virtual limit to the clamped
\* contraction if the new average exceeds the target and to the clamped
\* expansion otherwise, and zeroes the pending usage; likewise for net.
C10_ProcessBlockUsage ==
    [][ret'.op = "process_block_usage" =>
         /\ Folded(state.average_block_cpu_usage, state.pending_cpu_usage,
                   state.virtual_cpu_limit, config.cpu_limit_parameters,
                   state'.average_block_cpu_usage, state'.pending_cpu_usage,
                   state'.virtual_cpu_limit)
         /\ Folded(state.average_block_net_usage, state.pending_net_usage,
                   state.virtual_net_limit, config.net_limit_parameters,
                   state'.average_block_net_usage, state'.pending_net_usage,
                   state'.virtual_net_limit)
         /\ state'.average_block_cpu_usage.last_ordinal
                = state'.average_block_net_usage.last_ordinal]_vars

\* a block whose cpu average came out equal to the target has expanded the limit
C10_Witness ==
    /\ ret.op = "process_block_usage"
    /\ state.average_block_cpu_usage.consumed > 0
    /\ ema_average(state.average_block_cpu_usage) = config.cpu_limit_parameters.target
    /\ state.virtual_cpu_limit > config.cpu_limit_parameters.max
    /\ state.pending_cpu_usage = 0 /\ state.pending_net_usage = 0

(* ------------------------ claims: block parameters --------------------- *)

\* C11: set_block_parameters changes the cpu and net parameters of the config
\* row and nothing else: the state row with its virtual limits, averages,
\* pending usages and totals and all account rows stay as they were; the
\* virtual limits change in no step but process_block_usage.
C11_ParametersOnly ==
    [][/\ ret'.op = "set_block_parameters" =>
              /\ state' = state
              /\ limits' = limits /\ usage' = usage
              /\ gst' = gst /\ activation' = activation
              /\ config'.account_cpu_usage_average_window
                     = config.account_cpu_usage_average_window
              /\ config'.account_net_usage_average_window
                     = config.account_net_usage_average_window
       /\ (\/ state'.virtual_cpu_limit # state.virtual_cpu_limit
           \/ state'.virtual_net_limit # state.virtual_net_limit)
              => ret'.op = "process_block_usage"]_vars

\* larger parameters have been stored while alice has rows and the block has
\* usage: the virtual cpu limit is still the old one, below the new max
C11_Witness ==
    /\ ret.op = "set_block_parameters" /\ Running
    /\ config.cpu_limit_parameters = LargerParams
    /\ state.virtual_cpu_limit < LargerParams.max
    /\ state.pending_cpu_usage > 0
    /\ Rows(limits, TRUE, "alice") # {} /\ Rows(limits, FALSE, "alice") # {}
    /\ state.total_cpu_weight > 0

\* periods = 0 or a rate with denominator 0
Rejected(p) ==
    \/ p.periods = 0
    \/ p.contract_rate.denominator = 0
    \/ p.expand_rate.denominator = 0

\* C12: set_block_parameters fails and leaves the stored config unchanged
\* whenever either argument has periods = 0 or a rate with denominator 0, and
\* succeeds, storing both arguments, for every other pair.
C12_Validation ==
    [][\A p \in ParameterChanges :
           SetBlockParameters(p) =>
               IF Rejected(p[1]) \/ Rejected(p[2])
               THEN ret'.err # "ok" /\ config' = config
               ELSE /\ ret'.err = "ok"
                    /\ config'.cpu_limit_parameters = p[1]
                    /\ config'.net_limit_parameters = p[2]]_vars

\* a call has been refused after another had stored larger parameters, which
\* are still the stored ones
C12_Witness ==
    /\ ret.op = "set_block_parameters" /\ ret.err # "ok"
    /\ config.cpu_limit_parameters = LargerParams
    /\ config.net_limit_parameters = DefaultParams

(* ------------------------- claims: admission --------------------------- *)

\* the limits add_transaction_usage reads for an account, and its usage row
Resolved(a) == get_account_limits(Store, a)

UsageOf(tbl, a) == tbl[FindUsage(tbl, a)]

Known(a) == FindUsage(usage, a) # 0 /\ Resolved(a).found

\* what the accessors return for an account without a limit
UNLIMITED == [used |-> -1, available |-> -1, max |-> -1, err |-> "ok"]

\* C13: for an account whose resolved cpu_weight is -1 the loop body of
\* add_transaction_usage never throws CpuUsageExceeded, whatever the usage, and
\* get_account_cpu_limit_ex returns {-1, -1, -1}; likewise net_weight with
\* NetUsageExceeded and get_account_net_limit_ex.
C13_UnlimitedSentinel ==
    \A a \in StagingAccounts :
        (Running /\ Known(a)) =>
            /\ Resolved(a).cpu_weight = -1 =>
                   /\ \A elastic \in BOOLEAN :
                          get_account_cpu_limit_ex(Store, a, elastic) = UNLIMITED
                   /\ \A u \in AdmissionUsage :
                          charge_account(Store, a, u[1], u[2], ScenarioSlot).err
                              # "CpuUsageExceeded"
            /\ Resolved(a).net_weight = -1 =>
                   /\ \A elastic \in BOOLEAN :
                          get_account_net_limit_ex(Store, a, elastic) = UNLIMITED
                   /\ \A u \in AdmissionUsage :
                          charge_account(Store, a, u[1], u[2], ScenarioSlot).err
                              # "NetUsageExceeded"

\* gstio, without limits beside alice who has a share, has been charged the
\* whole block
C13_Witness ==
    /\ ret.op = "add_transaction_usage" /\ Running
    /\ Known("gstio") /\ Resolved("gstio").cpu_weight = -1
    /\ state.total_cpu_weight > 0
    /\ ema_average(UsageOf(usage, "gstio").cpu_usage)
           * config.account_cpu_usage_average_window = state.virtual_cpu_limit
    /\ get_account_cpu_limit_ex(Store, "gstio", TRUE) = UNLIMITED

\* every authorizer exists and has negative cpu and net weights
AllUnlimited(accounts) ==
    \A a \in accounts :
        Known(a) /\ Resolved(a).cpu_weight < 0 /\ Resolved(a).net_weight < 0

\* the usage row of a after the call includes the transaction
Charged(a, u) ==
    /\ UsageOf(usage', a).cpu_usage
           = ema_add(UsageOf(usage, a).cpu_usage, u[1], ScenarioSlot,
                     config.account_cpu_usage_average_window)
    /\ UsageOf(usage', a).net_usage
           = ema_add(UsageOf(usage, a).net_usage, u[2], ScenarioSlot,
                     config.account_net_usage_average_window)

\* both pending usages after the call include the transaction
PendingCharged(u) ==
    /\ state'.pending_cpu_usage = Wrap(state.pending_cpu_usage + u[1])
    /\ state'.pending_net_usage = Wrap(state.pending_net_usage + u[2])

\* C14: an add_transaction_usage whose authorizers all have negative cpu and
\* net weights adds the usage to each authorizer's EMAs and to both pending
\* usages, and fails, with BlockResourceExhausted, exactly when a pending usage
\* then exceeds its max.
C14_UnlimitedContributes ==
    [][\A accounts \in AuthorizerSets : \A u \in AdmissionUsage :
           (AllUnlimited(accounts) /\ AddTransactionUsage(accounts, u, ScenarioSlot)) =>
               /\ \A a \in accounts : Charged(a, u)
               /\ PendingCharged(u)
               /\ ret'.err \in {"ok", "BlockResourceExhausted"}
               /\ ret'.err = "BlockResourceExhausted" <=>
                      \/ state'.pending_cpu_usage > config.cpu_limit_parameters.max
                      \/ state'.pending_net_usage > config.net_limit_parameters.max]_vars

\* a transaction of gstio, without limits, has exhausted the block and is in
\* gstio's usage all the same
C14_Witness ==
    /\ ret.op = "add_transaction_usage" /\ ret.err = "BlockResourceExhausted"
    /\ AllUnlimited({"gstio"})
    /\ UsageOf(usage, "gstio").cpu_usage.consumed > 0
    /\ ema_average(UsageOf(usage, "gstio").cpu_usage)
           * config.account_cpu_usage_average_window = state.pending_cpu_usage
    /\ state.pending_cpu_usage > config.cpu_limit_parameters.max
    /\ state.total_cpu_weight > 0

\* the usage in the window and the share add_transaction_usage compares
CpuUsedInWindow(tbl, a) ==
    (UsageOf(tbl, a).cpu_usage.value_ex * config.account_cpu_usage_average_window)
        \div RATE_PRECISION

CpuShare(a) ==
    (state.virtual_cpu_limit * config.account_cpu_usage_average_window
         * Resolved(a).cpu_weight) \div state.total_cpu_weight

NetUsedInWindow(tbl, a) ==
    (UsageOf(tbl, a).net_usage.value_ex * config.account_net_usage_average_window)
        \div RATE_PRECISION

NetShare(a) ==
    (state.virtual_net_limit * config.account_net_usage_average_window
         * Resolved(a).net_weight) \div state.total_net_weight

\* the first end-to-end scenario: the scenario's block parameters, the virtual
\* cpu limit at max, a fresh block, alice with a committed cpu_weight of 1 out
\* of a total of 2 and no usage so far
Scenario1 ==
    /\ Running
    /\ config.cpu_limit_parameters = ScenarioParams
    /\ state.virtual_cpu_limit = ScenarioParams.max
    /\ state.pending_cpu_usage = 0 /\ state.pending_net_usage = 0
    /\ state.total_cpu_weight = 2
    /\ Known("alice") /\ Rows(limits, TRUE, "alice") = {}
    /\ Resolved("alice").cpu_weight = 1
    /\ UsageOf(usage, "alice").cpu_usage = EmaZero

\* the larger and the smaller usage of the scenario (600 and 400 of max 1000)
ScenarioLarge == <<3, 0>>

ScenarioSmall == <<2, 0>>

\* C15 as stated: in scenario 1 alice's transaction with the larger cpu usage
\* fails with CpuUsageExceeded and the one with the smaller usage succeeds.
C15_Scenario1Rejected ==
    [][/\ (Scenario1 /\ AddTransactionUsage({"alice"}, ScenarioLarge, ScenarioSlot))
              => ret'.err = "CpuUsageExceeded"
       /\ (Scenario1 /\ AddTransactionUsage({"alice"}, ScenarioSmall, ScenarioSlot))
              => ret'.err = "ok"]_vars

\* C15, amended: in scenario 1 both transactions succeed; after the larger one
\* alice's usage in the window is the cpu usage itself, below her share.
C15_Scenario1 ==
    [][/\ (Scenario1 /\ AddTransactionUsage({"alice"}, ScenarioLarge, ScenarioSlot))
              => /\ ret'.err = "ok"
                 /\ CpuUsedInWindow(usage', "alice") = ScenarioLarge[1]
                 /\ CpuUsedInWindow(usage', "alice") < CpuShare("alice")
       /\ (Scenario1 /\ AddTransactionUsage({"alice"}, ScenarioSmall, ScenarioSlot))
              => ret'.err = "ok"]_vars

\* alice's larger transaction has been admitted in scenario 1
C15_Witness ==
    /\ ret.op = "add_transaction_usage" /\ Running
    /\ config.cpu_limit_parameters = ScenarioParams
    /\ state.total_cpu_weight = 2 /\ Resolved("alice").cpu_weight = 1
    /\ state.pending_cpu_usage = 3
    /\ UsageOf(usage, "alice").cpu_usage.consumed = 3
    /\ CpuUsedInWindow(usage, "alice") = 3 /\ CpuShare("alice") = 4

\* the second scenario: scenario 1 after alice's smaller transaction
Scenario2 ==
    /\ Running
    /\ config.cpu_limit_parameters = ScenarioParams
    /\ state.virtual_cpu_limit = ScenarioParams.max
    /\ state.pending_cpu_usage = 2 /\ state.pending_net_usage = 0
    /\ state.total_cpu_weight = 2
    /\ Known("alice") /\ Rows(limits, TRUE, "alice") = {}
    /\ Resolved("alice").cpu_weight = 1
    /\ UsageOf(usage, "alice").cpu_usage
           = ema_add(EmaZero, 2, ScenarioSlot, config.account_cpu_usage_average_window)

\* C16 as stated: in scenario 2 alice's second transaction with the smaller cpu
\* usage fails with CpuUsageExceeded.
C16_Scenario2Rejected ==
    [][(Scenario2 /\ AddTransactionUsage({"alice"}, ScenarioSmall, ScenarioSlot))
           => ret'.err = "CpuUsageExceeded"]_vars

\* C16, amended: in scenario 2 alice's second transaction succeeds; her usage
\* in the window is then the sum of the two usages, within her share.
C16_Scenario2 ==
    [][(Scenario2 /\ AddTransactionUsage({"alice"}, ScenarioSmall, ScenarioSlot))
           => /\ ret'.err = "ok"
              /\ CpuUsedInWindow(usage', "alice") = 2 * ScenarioSmall[1]
              /\ CpuUsedInWindow(usage', "alice") <= CpuShare("alice")]_vars

\* alice's second transaction has been admitted
C16_Witness ==
    /\ ret.op = "add_transaction_usage" /\ Running
    /\ config.cpu_limit_parameters = ScenarioParams
    /\ state.total_cpu_weight = 2 /\ Resolved("alice").cpu_weight = 1
    /\ state.pending_cpu_usage = 4
    /\ UsageOf(usage, "alice").cpu_usage.consumed = 2
    /\ UsageOf(usage, "alice").cpu_usage.value_ex
           = 2 * ema_add(EmaZero, 2, ScenarioSlot,
                         config.account_cpu_usage_average_window).value_ex

\* the usage of a after the call exceeds its share, for the resource of the error
Exceeded(a, err) ==
    IF err = "CpuUsageExceeded"
    THEN /\ Resolved(a).cpu_weight >= 0 /\ state.total_cpu_weight > 0
         /\ CpuUsedInWindow(usage', a) > CpuShare(a)
    ELSE /\ Resolved(a).net_weight >= 0 /\ state.total_net_weight > 0
         /\ NetUsedInWindow(usage', a) > NetShare(a)

\* C17: an add_transaction_usage that fails with CpuUsageExceeded or
\* NetUsageExceeded fails on some k-th authorizer in sorted order: the usage of
\* authorizers 1..k includes the transaction, that of the later ones and both
\* pending usages are untouched; one that fails with BlockResourceExhausted
\* leaves every authorizer's usage and both pending usages including it.
C17_NoUndo ==
    [][\A accounts \in AuthorizerSets : \A u \in AdmissionUsage :
           ((\A a \in accounts : Known(a))
                /\ AddTransactionUsage(accounts, u, ScenarioSlot)) =>
               LET order == Sorted(accounts)
               IN  /\ ret'.err \in {"CpuUsageExceeded", "NetUsageExceeded"} =>
                          \E k \in 1 .. Len(order) :
                              /\ \A i \in 1 .. k : Charged(order[i], u)
                              /\ \A i \in (k + 1) .. Len(order) :
                                     UsageOf(usage', order[i]) = UsageOf(usage, order[i])
                              /\ Exceeded(order[k], ret'.err)
                              /\ state' = state
                   /\ ret'.err = "BlockResourceExhausted" =>
                          /\ \A a \in accounts : Charged(a, u)
                          /\ PendingCharged(u)
                   /\ ret'.err \in {"ok", "CpuUsageExceeded", "NetUsageExceeded",
                                    "BlockResourceExhausted"}]_vars

\* a transaction of alice and gstio has failed on gstio, the second: alice's
\* usage holds it, the block's pending usage does not
C17_Witness ==
    /\ ret.op = "add_transaction_usage" /\ ret.err = "CpuUsageExceeded"
    /\ Known("alice") /\ Known("gstio")
    /\ UsageOf(usage, "alice").cpu_usage.consumed = 3
    /\ CpuUsedInWindow(usage, "alice") = 3
    /\ CpuUsedInWindow(usage, "alice") <= CpuShare("alice")
    /\ UsageOf(usage, "gstio").cpu_usage.consumed = 3
    /\ CpuUsedInWindow(usage, "gstio") > CpuShare("gstio")
    /\ state.pending_cpu_usage < 3

(* --------------------------- claims: ram usage ------------------------- *)

\* alice's ram usage, and the gst_usage of her gas row (0 when she has none)
RamUsage(tbl) == UsageOf(tbl, "alice").ram_usage

GstUsage ==
    IF Find(gst, TRUE, "alice") = 0 THEN 0 ELSE gst[Find(gst, TRUE, "alice")].gst_usage

\* C18: a call whose delta would take ram_usage above UINT64_MAX or below 0
\* fails and leaves ram_usage and every gas row as they were; every other call
\* sets ram_usage to ram_usage + delta; so ram_usage is the usage at the start
\* plus the accepted deltas, never wrapped.
C18_RamBounds ==
    [][LET delta == probe.deltas[probe.at + 1]
           sum == RamUsage(usage) + delta
       IN  /\ IF sum > UINT64_MAX \/ sum < 0
              THEN ret'.err # "ok" /\ usage' = usage /\ gst' = gst
              ELSE ret'.err = "ok" /\ RamUsage(usage') = sum
           /\ RamUsage(usage') = probe'.base + probe'.sum]_vars

\* after accepted deltas took ram_usage to UINT64_MAX, one more was refused
C18_Witness ==
    /\ ret.op = "add_pending_ram_usage" /\ ret.err # "ok"
    /\ probe.at = MaxCalls /\ probe.sum > 0
    /\ RamUsage(usage) = UINT64_MAX
    /\ GstUsage > 0

\* the store with every ram_bytes limit lifted
Unlimit(s) ==
    [s EXCEPT !.limits = [i \in DOMAIN s.limits |-> [s.limits[i] EXCEPT !.ram_bytes = -1]]]

\* C19: add_pending_ram_usage fails with the account's ram_bytes limit exactly
\* as it does without it; with gas inactive verify_account_ram_usage succeeds
\* if the pending-first ram_bytes is negative or ram_usage <= ram_bytes and
\* fails with RamUsageExceeded otherwise.
C19_RamLimitDeferred ==
    \A a \in StagingAccounts :
        (Running /\ Known(a)) =>
            /\ \A d \in RamDeltas : \A w \in BOOLEAN :
                   /\ add_pending_ram_usage(Store, a, d, w).err
                          = add_pending_ram_usage(Unlimit(Store), a, d, w).err
                   /\ add_pending_ram_usage(Store, a, d, w).err # "RamUsageExceeded"
            /\ ~is_activation(Store) =>
                   verify_account_ram_usage(Store, a)
                       = IF \/ Resolved(a).ram_bytes < 0
                            \/ UsageOf(usage, a).ram_usage <= Resolved(a).ram_bytes
                         THEN "ok" ELSE "RamUsageExceeded"

\* usage beyond alice's staged ram_bytes of 0 was accepted, and verify refuses it
C19_Witness ==
    /\ ret.op = "add_pending_ram_usage" /\ Running
    /\ ~is_activation(Store)
    /\ Resolved("alice").ram_bytes = 0
    /\ RamUsage(usage) = INT64_MAX
    /\ verify_account_ram_usage(Store, "alice") = "RamUsageExceeded"

\* C20: while gas is active, after any sequence of ram_delta values the
\* account's gst_usage is max(0, sum of the deltas applied).
C20_GasSaturation ==
    (Running /\ probe.active /\ probe.at > 0) => GstUsage = Max(0, probe.sum)

\* two deltas of INT64_MAX were charged; their signed sum wrapped and gst_usage
\* was reset to 0
C20_Witness ==
    /\ Running /\ probe.active /\ probe.at = 2
    /\ probe.base = 0 /\ probe.sum = 2 * INT64_MAX
    /\ RamUsage(usage) = 2 * INT64_MAX
    /\ GstUsage = 0

(* ---------------------------- claims: gas ------------------------------ *)

\* every int64_t
Int64 == (-INT64_MAX - 1) .. INT64_MAX

\* the store after an accepted add_pending_ram_usage holds exactly one gas row
\* of the account, pending, with gst_bytes 0 and gst_usage max(ram_delta, 0)
GasRowCreated(s, account, ram_delta) ==
    /\ Rows(s.gst, TRUE, account) # {}
    /\ \A i \in DOMAIN s.gst :
           s.gst[i].owner = account =>
               /\ s.gst[i].pending
               /\ s.gst[i].gst_bytes = 0
               /\ s.gst[i].gst_usage = Max(ram_delta, 0)

\* gas is active and the account, which exists, has no GasBalance row
Unprovisioned(account) ==
    /\ is_activation(Store)
    /\ Known(account)
    /\ \A i \in DOMAIN gst : gst[i].owner # account

\* C21 as stated: whenever add_pending_ram_usage(account, ram_delta) succeeds
\* with gas active and no GasBalance row for the account, for any ram_delta,
\* 0 and negative values included, a pending row with gst_bytes = 0 and
\* gst_usage = max(ram_delta, 0) exists afterwards.
C21_LazyGasRowAnyDelta ==
    \A a \in Accounts : \A d \in Int64 : \A w \in BOOLEAN :
        LET r == add_pending_ram_usage(Store, a, d, w)
        IN  Unprovisioned(a) /\ r.err = "ok" => GasRowCreated(r.s, a, d)

\* C21, amended: whenever add_pending_ram_usage(account, ram_delta) succeeds
\* with gas active and no GasBalance row for the account, then for ram_delta # 0
\* a pending row with gst_bytes = 0 and gst_usage = max(ram_delta, 0) exists
\* afterwards, the only gas row of the account, and for ram_delta = 0 the call
\* leaves the store as it was, without a gas row for the account.
C21_LazyGasRow ==
    \A a \in Accounts : \A d \in Int64 : \A w \in BOOLEAN :
        LET r == add_pending_ram_usage(Store, a, d, w)
        IN  Unprovisioned(a) /\ r.err = "ok" =>
                IF d = 0 THEN r.s = Store ELSE GasRowCreated(r.s, a, d)

\* a call with a negative delta has created the row of the first account
C21_Witness ==
    /\ ret.op = "add_pending_ram_usage"
    /\ is_activation(Store)
    /\ usage # <<>>
    /\ usage[1].ram_usage = 0
    /\ gst = <<[owner |-> usage[1].owner, pending |-> TRUE,
                gst_bytes |-> 0, gst_usage |-> 0]>>

\* the GasBalance row of an account that has one
GasRow(account) == gst[Find(gst, TRUE, account)]

\* gas is active, the account has a GasBalance row and passes the RAM check
Metered(account) ==
    /\ is_activation(Store)
    /\ Known(account)
    /\ Find(gst, TRUE, account) # 0
    /\ verify_account_ram_usage(Store, account) # "RamUsageExceeded"

\* scenario 6 at the scaled width: gas active, alice with gst_bytes = 2 and
\* gst_usage = 0; two deltas of +1 leave gst_usage = 2 and verify passes, a
\* third leaves gst_usage = 3 and verify fails with InsufficientGas
Scenario6Start ==
    set_gas_limits(
        set_gst_limits(initialize_account(initialize_database, "alice").s,
                       "alice", 2).s,
        TRUE).s

Scenario6 ==
    LET s2 == add_pending_ram_usage(
                  add_pending_ram_usage(Scenario6Start, "alice", 1, FALSE).s,
                  "alice", 1, FALSE).s
        s3 == add_pending_ram_usage(s2, "alice", 1, FALSE).s
    IN  /\ s2.gst[Find(s2.gst, TRUE, "alice")].gst_usage = 2
        /\ verify_account_ram_usage(s2, "alice") = "ok"
        /\ s3.gst[Find(s3.gst, TRUE, "alice")].gst_usage = 3
        /\ verify_account_ram_usage(s3, "alice") = "InsufficientGas"

\* C22: with gas active and the RAM check passing, verify_account_ram_usage
\* for an account other than gstio.gas and gstio whose GasBalance row has
\* gst_bytes >= 0 succeeds iff gst_usage <= gst_bytes and otherwise fails with
\* InsufficientGas (the scenario: two deltas within the balance pass, a third
\* beyond it fails); for gstio.gas, gstio, or a row with negative gst_bytes it
\* never fails on gas.
C22_GasBalanceCheck ==
    /\ Scenario6
    /\ \A a \in Accounts :
           Metered(a) =>
               IF GasRow(a).gst_bytes >= 0 /\ a \notin {"gstio.gas", "gstio"}
               THEN verify_account_ram_usage(Store, a) =
                        IF GasRow(a).gst_usage <= GasRow(a).gst_bytes
                        THEN "ok" ELSE "InsufficientGas"
               ELSE verify_account_ram_usage(Store, a) = "ok"

\* gstio has spent more than its balance and is verified all the same
C22_Witness ==
    /\ Metered("gstio")
    /\ GasRow("gstio").gst_bytes >= 0
    /\ GasRow("gstio").gst_usage > GasRow("gstio").gst_bytes
    /\ verify_account_ram_usage(Store, "gstio") = "ok"

\* C23: with gas active, verify_account_ram_usage for an account without a
\* GasBalance row succeeds, the RAM check permitting, only if the account is
\* gstio.gas; for every other account, gstio included, it fails with
\* GasNotProvisioned.
C23_GasNotProvisioned ==
    \A a \in Accounts :
        /\ Unprovisioned(a)
        /\ verify_account_ram_usage(Store, a) # "RamUsageExceeded"
        => verify_account_ram_usage(Store, a) =
               IF a = "gstio.gas" THEN "ok" ELSE "GasNotProvisioned"

\* gstio without a gas row is refused while gas is active
C23_Witness ==
    /\ Unprovisioned("gstio")
    /\ ret.op = "set_gas_limits"
    /\ verify_account_ram_usage(Store, "gstio") = "GasNotProvisioned"

\* C24 as stated: verify_account_gst_usage(account) fails with
\* GasNotProvisioned when the account has no GasBalance row and with
\* InsufficientGas when gst_bytes < gst_usage + 100, leaving the row unchanged
\* in both cases; every call that succeeds increases gst_usage by exactly 100,
\* for every value of gst_bytes.
C24_GasTollAnyBalance ==
    \A a \in Accounts :
        LET r == verify_account_gst_usage(Store, a)
            g == Find(gst, TRUE, a)
        IN  /\ g = 0 => r.err = "GasNotProvisioned" /\ r.s = Store
            /\ g # 0 /\ gst[g].gst_bytes < gst[g].gst_usage + GAS_TOLL =>
                   r.err = "InsufficientGas" /\ r.s = Store
            /\ r.err = "ok" =>
                   r.s.gst[g].gst_usage = gst[g].gst_usage + GAS_TOLL

\* C24, amended: verify_account_gst_usage(account) fails with
\* GasNotProvisioned when the account has no GasBalance row, and with
\* InsufficientGas when gst_bytes >= 0 and gst_bytes < gst_usage + 100 (the sum
\* as the uint64_t it is), leaving the store unchanged in both cases; a call
\* that succeeds on a row with gst_bytes >= 0 increases its gst_usage by 100
\* (as a uint64_t) and changes nothing else; on a row with negative gst_bytes
\* the call succeeds and leaves the store unchanged.
C24_GasToll ==
    \A a \in Accounts :
        LET r == verify_account_gst_usage(Store, a)
            g == Find(gst, TRUE, a)
        IN  IF g = 0 THEN r.err = "GasNotProvisioned" /\ r.s = Store
            ELSE IF gst[g].gst_bytes < 0 THEN r.err = "ok" /\ r.s = Store
            ELSE IF gst[g].gst_bytes < Wrap(gst[g].gst_usage + GAS_TOLL)
            THEN r.err = "InsufficientGas" /\ r.s = Store
            ELSE /\ r.err = "ok"
                 /\ r.s = [Store EXCEPT
                              !.gst[g].gst_usage = Wrap(@ + GAS_TOLL)]

\* the toll was asked of a row with negative gst_bytes and usage on it, and
\* the call returned
C24_Witness ==
    /\ ret.op = "verify_account_gst_usage"
    /\ ret.err = "ok"
    /\ usage # <<>>
    /\ Find(gst, TRUE, usage[1].owner) # 0
    /\ GasRow(usage[1].owner).gst_bytes < 0
    /\ GasRow(usage[1].owner).gst_usage = 1

\* C25: after set_gas_limits(flag) returns, the GasActivation row of gstio
\* exists with is_activation = flag, so is_activation() returns flag, both
\* when the row existed already and when the call creates it.
C25_ActivationUpsert ==
    \A flag \in BOOLEAN :
        LET r == set_gas_limits(Store, flag)
            i == Find(r.s.activation, TRUE, "gstio")
        IN  /\ r.err = "ok"
            /\ i # 0
            /\ r.s.activation[i].is_activation = flag
            /\ is_activation(r.s) = flag

\* the first set_gas_limits call of a store has returned and gas is active
C25_Witness ==
    /\ ret.op = "set_gas_limits"
    /\ usage = <<>>
    /\ gst = <<>>
    /\ Len(activation) = 1
    /\ is_activation(Store)

\* C26: while no GasActivation row exists or its is_activation is false,
\* add_pending_ram_usage creates and modifies no GasBalance row, and
\* verify_account_ram_usage never fails with InsufficientGas or
\* GasNotProvisioned, whatever the gas rows contain.
C26_GasOffInert ==
    (\A i \in DOMAIN activation :
         activation[i].owner = "gstio" => ~activation[i].is_activation)
    => \A a \in Accounts :
           /\ \A d \in Int64 : \A w \in BOOLEAN :
                  add_pending_ram_usage(Store, a, d, w).s.gst = gst
           /\ verify_account_ram_usage(Store, a)
                  \notin {"InsufficientGas", "GasNotProvisioned"}

\* gas was switched off with alice above her balance, and a ram delta was
\* accepted since: her gas row is as it was and she is verified
C26_Witness ==
    /\ ret.op = "add_pending_ram_usage"
    /\ ret.err = "ok"
    /\ Len(activation) = 1
    /\ ~activation[1].is_activation
    /\ Known("alice")
    /\ Find(gst, TRUE, "alice") # 0
    /\ GasRow("alice").gst_bytes = 2
    /\ GasRow("alice").gst_usage = 3
    /\ usage[FindUsage(usage, "alice")].ram_usage > 3
    /\ verify_account_ram_usage(Store, "alice") = "ok"

(* ------------------ claims: return values and creation ----------------- *)

\* the ram_bytes set last for an account: the pending row's when there is one,
\* else the committed row's
OldRamBytes(a) ==
    IF Find(limits, TRUE, a) # 0 THEN limits[Find(limits, TRUE, a)].ram_bytes
    ELSE limits[Find(limits, FALSE, a)].ram_bytes

\* C27: set_account_limits returns true iff the new ram_bytes is a decrease
\* relative to the value set before: an old ram_bytes < 0 counts as infinity,
\* so any new value >= 0 returns true, otherwise true exactly when new < old;
\* a new negative ram_bytes returns false. The old value is the pending row's
\* ram_bytes when a pending row exists, else the committed row's.
C27_DecreaseFlag ==
    \A a \in Accounts : \A ram_bytes \in Int64 :
        Find(limits, FALSE, a) # 0 =>
            LET r == set_account_limits(Store, a, ram_bytes, 1, 1)
            IN  /\ r.err = "ok"
                /\ r.val = IF ram_bytes < 0 THEN FALSE
                           ELSE IF OldRamBytes(a) < 0 THEN TRUE
                           ELSE ram_bytes < OldRamBytes(a)

\* a call that found a staged ram_bytes above the committed one, lowered it
\* to the committed value and returned true
C27_Witness ==
    /\ ret.op = "set_account_limits"
    /\ ret.staged
    /\ ret.val = TRUE
    /\ \E a \in Accounts :
           /\ Find(limits, TRUE, a) # 0
           /\ Find(limits, FALSE, a) # 0
           /\ limits[Find(limits, FALSE, a)].ram_bytes = 0
           /\ OldRamBytes(a) = 0
           /\ \A b \in Accounts \ {a} : Find(limits, TRUE, b) = 0

\* what set_gst_limits(a, new) makes of the store when it succeeds on a row
GstBytesSet(a, new) ==
    [Store EXCEPT !.gst[Find(gst, TRUE, a)].gst_bytes = new]

\* C28 as stated: whenever set_gst_limits(owner, new) is called with new below
\* the row's gst_bytes, for any new value, negative ones included, it succeeds
\* only if new >= gst_usage; otherwise it fails with InsufficientGas and the
\* row is unchanged. On success gst_bytes = new and gst_usage is unchanged.
C28_GuardedDecreaseAnyValue ==
    \A a \in Accounts : \A new \in Int64 :
        Find(gst, TRUE, a) # 0 /\ new < GasRow(a).gst_bytes =>
            LET r == set_gst_limits(Store, a, new)
            IN  IF new >= GasRow(a).gst_usage
                THEN r.err = "ok" /\ r.s = GstBytesSet(a, new)
                ELSE r.err = "InsufficientGas" /\ r.s = Store

\* C28, amended: whenever set_gst_limits(owner, new) is called with new below
\* the row's gst_bytes and new >= 0, it succeeds only if new >= gst_usage;
\* otherwise it fails with InsufficientGas and the row is unchanged. A negative
\* new below the row's gst_bytes is compared as the uint64_t it converts to,
\* new + 2^64, and so succeeds for every gst_usage up to that. On success
\* gst_bytes = new and gst_usage is unchanged.
C28_GuardedDecrease ==
    \A a \in Accounts : \A new \in Int64 :
        Find(gst, TRUE, a) # 0 /\ new < GasRow(a).gst_bytes =>
            LET r == set_gst_limits(Store, a, new)
                compared == IF new >= 0 THEN new ELSE new + UINT64_MAX + 1
            IN  IF compared >= GasRow(a).gst_usage
                THEN r.err = "ok" /\ r.s = GstBytesSet(a, new)
                ELSE r.err = "InsufficientGas" /\ r.s = Store

\* a row with usage on it is a decrease away from unlimited, which is
\* accepted, and from a smaller balance below its usage, which is refused
C28_Witness ==
    /\ usage # <<>>
    /\ Find(gst, TRUE, usage[1].owner) # 0
    /\ GasRow(usage[1].owner).gst_bytes = INT64_MAX
    /\ GasRow(usage[1].owner).gst_usage = 1
    /\ set_gst_limits(Store, usage[1].owner, -1).err = "ok"
    /\ set_gst_limits(Store, usage[1].owner, 0).err = "InsufficientGas"

\* C29: initialize_account(owner) creates exactly one committed AccountLimits
\* row and one AccountUsage row for owner with the values the schema declares,
\* and changes no totals, no other account's rows and no gas rows; if a
\* committed limits row or a usage row for owner exists already, it fails with
\* AccountAlreadyExists and adds no row.
C29_InitializeAccount ==
    \A a \in Accounts :
        LET r == initialize_account(Store, a)
        IN  IF \/ \E i \in DOMAIN limits :
                      limits[i].owner = a /\ ~limits[i].pending
               \/ \E i \in DOMAIN usage : usage[i].owner = a
            THEN r.err = "AccountAlreadyExists" /\ r.s = Store
            ELSE /\ r.err = "ok"
                 /\ r.s.limits =
                        Append(limits, [owner |-> a, pending |-> FALSE,
                                        ram_bytes |-> -1, net_weight |-> -1,
                                        cpu_weight |-> -1])
                 /\ r.s.usage =
                        Append(usage, [owner |-> a, net_usage |-> EmaZero,
                                       cpu_usage |-> EmaZero, ram_usage |-> 0])
                 /\ r.s.state = state
                 /\ r.s.config = config
                 /\ r.s.gst = gst
                 /\ r.s.activation = activation

\* alice was created beside an account that has ram usage and a gas row, and
\* a second initialize_account(alice) is refused
C29_Witness ==
    /\ ret.op = "initialize_account"
    /\ ret.err = "ok"
    /\ Len(usage) = 2
    /\ usage[1].ram_usage > 0
    /\ gst # <<>>
    /\ usage[2] = DefaultUsage("alice")
    /\ initialize_account(Store, "alice").err = "AccountAlreadyExists"

(* --------------------------- claims: snapshot -------------------------- *)

ShareFormula(r, limit, window, w, total, value_ex) ==
    LET max_share == (limit * window * w) \div total
        used == ((value_ex * window) + RATE_PRECISION - 1) \div RATE_PRECISION
    IN  /\ r.max = max_share
        /\ r.used = used
        /\ r.available = Max(0, max_share - used)
        /\ used <= max_share => r.available + r.used = r.max
        /\ used > max_share => r.available = 0

\* C31: get_account_cpu_limit_ex(owner, elastic), for cpu_weight >= 0 and
\* total_cpu_weight > 0, returns max = floor(capacity * cpu_weight /
\* total_cpu_weight) with capacity = (elastic ? virtual_cpu_limit :
\* cpu_params.max) * W_cpu, used = ceil(value_ex * W_cpu / RATE_PRECISION) and
\* available = max(0, max - used), whenever the three fit the int64_t they are
\* returned in; get_account_net_limit_ex is symmetric.
C31_AccountLimitEx ==
    \A a \in Accounts : \A elastic \in BOOLEAN :
        Known(a) =>
            LET cpu == get_account_cpu_limit_ex(Store, a, elastic)
                net == get_account_net_limit_ex(Store, a, elastic)
                row == usage[FindUsage(usage, a)]
            IN  /\ (/\ Resolved(a).cpu_weight >= 0
                    /\ state.total_cpu_weight > 0
                    /\ cpu.err = "ok")
                   => ShareFormula(cpu,
                                   IF elastic THEN state.virtual_cpu_limit
                                   ELSE config.cpu_limit_parameters.max,
                                   config.account_cpu_usage_average_window,
                                   Resolved(a).cpu_weight, state.total_cpu_weight,
                                   row.cpu_usage.value_ex)
                /\ (/\ Resolved(a).net_weight >= 0
                    /\ state.total_net_weight > 0
                    /\ net.err = "ok")
                   => ShareFormula(net,
                                   IF elastic THEN state.virtual_net_limit
                                   ELSE config.net_limit_parameters.max,
                                   config.account_net_usage_average_window,
                                   Resolved(a).net_weight, state.total_net_weight,
                                   row.net_usage.value_ex)

\* alice's decayed usage is rounded up to 1 of a share of 2, and 1 is available
C31_Witness ==
    /\ Known("alice")
    /\ Resolved("alice").cpu_weight >= 0
    /\ state.total_cpu_weight > 0
    /\ usage[FindUsage(usage, "alice")].cpu_usage.value_ex = 1
    /\ get_account_cpu_limit_ex(Store, "alice", TRUE) =
           [used |-> 1, available |-> 1, max |-> 2, err |-> "ok"]

\* C32 as stated: for any stream of non-negative inputs added to an EMA with
\* window W at strictly increasing ordinals, average() after every add is at
\* most max(inputs) * RATE_PRECISION / W scaled back by RATE_PRECISION, that
\* is max(inputs) / W.
C32_EmaBoundByWindow ==
    probe.adds > 0 =>
        ema_average(probe.ema) <=
            ((probe.largest * RATE_PRECISION) \div probe.window) \div RATE_PRECISION

\* C32, amended: for any stream of non-negative inputs added to an EMA with
\* window W at strictly increasing ordinals, value_ex after every add is at
\* most max(inputs) * RATE_PRECISION and average() at most max(inputs); one
\* add on an empty accumulator leaves max(inputs) * RATE_PRECISION / W.
C32_EmaBound ==
    probe.adds > 0 =>
        /\ probe.ema.value_ex <= probe.largest * RATE_PRECISION
        /\ ema_average(probe.ema) <= probe.largest
        /\ probe.adds = 1 =>
               probe.ema.value_ex = (probe.largest * RATE_PRECISION) \div probe.window

\* two adds of the same input at successive ordinals leave an average above
\* the input divided by the window
C32_Witness ==
    /\ probe.adds = 2
    /\ probe.window = 2
    /\ probe.largest = 4
    /\ probe.ema.last_ordinal = 2
    /\ ema_average(probe.ema) = 3

\* C33: get_block_cpu_limit() = cpu_params.max - pending_cpu_usage never
\* wraps: in every state reachable through successful add_transaction_usage,
\* set_block_parameters and process_block_usage calls, pending_cpu_usage is at
\* most the stored cpu_params.max, so the value returned is at most
\* cpu_params.max; likewise for get_block_net_limit().
C33_BlockLimitNoWrap ==
    Running =>
        /\ state.pending_cpu_usage <= config.cpu_limit_parameters.max
        /\ get_block_cpu_limit(Store) <= config.cpu_limit_parameters.max
        /\ state.pending_net_usage <= config.net_limit_parameters.max
        /\ get_block_net_limit(Store) <= config.net_limit_parameters.max

\* set_block_parameters has returned with a net max below the pending net
\* usage of the block, and get_block_net_limit is above that max
C33_Witness ==
    /\ ret.op = "set_block_parameters"
    /\ ret.err = "ok"
    /\ state.pending_net_usage = config.net_limit_parameters.max + 1
    /\ get_block_net_limit(Store) = UINT64_MAX

(* --------------------- claims: admission and aging -------------------- *)

\* the (cpu_usage, net_usage) of the transactions the admission rule is
\* evaluated on
RuleUsage == AdmissionUsage \cup {<<1, 3>>}

\* the time slots the rule is evaluated at: the scenario's and the last one
RuleSlots == {ScenarioSlot, MaxOrdinal}

\* the cpu rule for account a and cpu usage c at time slot t: there is a share,
\* and the usage in the window, the transaction included, is above it
CpuRuleFails(a, c, t) ==
    LET W == config.account_cpu_usage_average_window
        value_ex == ema_add(UsageOf(usage, a).cpu_usage, c, t, W).value_ex
    IN  /\ Resolved(a).cpu_weight >= 0
        /\ state.total_cpu_weight > 0
        /\ (value_ex * W) \div RATE_PRECISION
               > (state.virtual_cpu_limit * W * Resolved(a).cpu_weight)
                     \div state.total_cpu_weight

NetRuleFails(a, n, t) ==
    LET W == config.account_net_usage_average_window
        value_ex == ema_add(UsageOf(usage, a).net_usage, n, t, W).value_ex
    IN  /\ Resolved(a).net_weight >= 0
        /\ state.total_net_weight > 0
        /\ (value_ex * W) \div RATE_PRECISION
               > (state.virtual_net_limit * W * Resolved(a).net_weight)
                     \div state.total_net_weight

\* C34: for an authorizer with resolved cpu_weight >= 0 while
\* total_cpu_weight > 0, add_transaction_usage fails with CpuUsageExceeded
\* exactly when, with the transaction's cpu accumulated into the account's EMA,
\* floor(value_ex * W_cpu / RATE_PRECISION) is above
\* floor(virtual_cpu_limit * W_cpu * cpu_weight / total_cpu_weight); with a
\* negative cpu_weight or a zero total no cpu check is made. The net check is
\* the same with NetUsageExceeded, and is reached when the cpu one passes.
C34_FairShareRule ==
    \A a \in StagingAccounts : \A u \in RuleUsage : \A t \in RuleSlots :
        (Running /\ Known(a)) =>
            LET err == add_transaction_usage(Store, {a}, u[1], u[2], t).err
            IN  /\ err = "CpuUsageExceeded" <=> CpuRuleFails(a, u[1], t)
                /\ err = "NetUsageExceeded" <=>
                       ~CpuRuleFails(a, u[1], t) /\ NetRuleFails(a, u[2], t)
                /\ (Resolved(a).cpu_weight < 0 \/ state.total_cpu_weight = 0) =>
                       err # "CpuUsageExceeded"
                /\ (Resolved(a).net_weight < 0 \/ state.total_net_weight = 0) =>
                       err # "NetUsageExceeded"

\* alice holds half of the weights and has just been refused a transaction
\* whose cpu takes her above her half of the window's capacity, not above the
\* whole of it
C34_Witness ==
    /\ ret.op = "add_transaction_usage" /\ ret.err = "CpuUsageExceeded"
    /\ Known("alice") /\ Resolved("alice").cpu_weight = 1
    /\ state.total_cpu_weight = 2
    /\ CpuUsedInWindow(usage, "alice") > CpuShare("alice")
    /\ CpuUsedInWindow(usage, "alice")
           <= state.virtual_cpu_limit * config.account_cpu_usage_average_window

\* the accounts of the set that have a usage row, none of them ahead of the
\* ordinal
Ageable(accounts, ordinal) ==
    \A a \in accounts :
        /\ FindUsage(usage, a) # 0
        /\ UsageOf(usage, a).cpu_usage.last_ordinal <= ordinal
        /\ UsageOf(usage, a).net_usage.last_ordinal <= ordinal

\* the accumulator after is the accumulator before, aged to the ordinal
Aged(before, after, ordinal, window) ==
    /\ after.value_ex <= before.value_ex
    /\ ema_average(after) <= ema_average(before)
    /\ ordinal - before.last_ordinal >= window =>
           after.value_ex = 0 /\ ema_average(after) = 0

\* C35: update_account_usage(accounts, ordinal) with ordinal >= each account's
\* last_ordinal never increases an account's cpu or net average, sets the
\* average to zero when ordinal - last_ordinal >= the window, and leaves the
\* pending block usage, the virtual limits, the totals, the limits rows,
\* ram_usage and the gas rows as they were.
C35_AgingOnly ==
    \A accounts \in SUBSET StagingAccounts : \A t \in Ordinals :
        (Running /\ Ageable(accounts, t)) =>
            LET r == update_account_usage(Store, Sorted(accounts), t)
            IN  /\ r.err = "ok"
                /\ \A a \in accounts :
                       /\ Aged(UsageOf(usage, a).cpu_usage, UsageOf(r.s.usage, a).cpu_usage,
                               t, config.account_cpu_usage_average_window)
                       /\ Aged(UsageOf(usage, a).net_usage, UsageOf(r.s.usage, a).net_usage,
                               t, config.account_net_usage_average_window)
                /\ r.s.state = state
                /\ r.s.limits = limits
                /\ r.s.gst = gst
                /\ r.s.activation = activation
                /\ r.s.config = config
                /\ Len(r.s.usage) = Len(usage)
                /\ \A i \in DOMAIN usage :
                       /\ r.s.usage[i].owner = usage[i].owner
                       /\ r.s.usage[i].ram_usage = usage[i].ram_usage
                       /\ usage[i].owner \notin accounts => r.s.usage[i] = usage[i]

\* update_account_usage has aged alice's averages by one slot of a window of
\* two: half of her usage is left, none was added, and the block's pending
\* usage still holds the transaction
C35_Witness ==
    /\ ret.op = "update_account_usage" /\ ret.err = "ok"
    /\ config.account_cpu_usage_average_window = 2
    /\ UsageOf(usage, "alice").cpu_usage
           = [last_ordinal |-> 1, value_ex |-> 1, consumed |-> 0]
    /\ state.pending_cpu_usage = 1
    /\ update_account_usage(Store, <<"alice">>, 2).s.usage[FindUsage(usage, "alice")]
           .cpu_usage.value_ex = 0

(* ----------------------- claims: block boundary ----------------------- *)

\* process_block_usage may be called with block number n
BlockDue(n) ==
    /\ state.average_block_cpu_usage.last_ordinal < n
    /\ state.average_block_net_usage.last_ordinal < n

\* the commit of the staged limits, then the rollup of block n
CommitThenRollup(n) ==
    process_block_usage(process_account_limit_updates(Store).s, n)

\* the rollup of block n, then the commit of the staged limits
RollupThenCommit(n) ==
    process_account_limit_updates(process_block_usage(Store, n).s)

\* C36: from any reachable state, process_account_limit_updates followed by
\* process_block_usage(n) leaves the same store as process_block_usage(n)
\* followed by process_account_limit_updates: the first touches only limits
\* rows and totals, the second only block averages, virtual limits and pending
\* usages.
C36_BoundaryCommutes ==
    \A n \in Ordinals :
        (Running /\ BlockDue(n)) =>
            /\ process_account_limit_updates(Store).err = RollupThenCommit(n).err
            /\ process_account_limit_updates(Store).err = "ok" =>
                   /\ CommitThenRollup(n).err = "ok"
                   /\ CommitThenRollup(n).s = RollupThenCommit(n).s
            /\ LET c == process_account_limit_updates(Store).s
                   r == process_block_usage(Store, n).s
               IN  /\ c.usage = usage /\ c.config = config
                   /\ c.state.average_block_cpu_usage = state.average_block_cpu_usage
                   /\ c.state.average_block_net_usage = state.average_block_net_usage
                   /\ c.state.virtual_cpu_limit = state.virtual_cpu_limit
                   /\ c.state.virtual_net_limit = state.virtual_net_limit
                   /\ c.state.pending_cpu_usage = state.pending_cpu_usage
                   /\ c.state.pending_net_usage = state.pending_net_usage
                   /\ r.limits = limits /\ r.usage = usage /\ r.config = config
                   /\ r.state.total_cpu_weight = state.total_cpu_weight
                   /\ r.state.total_net_weight = state.total_net_weight
                   /\ r.state.total_ram_bytes = state.total_ram_bytes

\* a store with a staged weight for alice and usage pending in the block: the
\* two boundary operations move the totals, the virtual limit and the pending
\* usage
C36_Witness ==
    /\ Running /\ BlockDue(1)
    /\ Find(limits, TRUE, "alice") # 0
    /\ state.pending_cpu_usage > 0
    /\ state.total_cpu_weight = 0
    /\ CommitThenRollup(1).err = "ok"
    /\ CommitThenRollup(1).s.state.total_cpu_weight > 0
    /\ CommitThenRollup(1).s.state.virtual_cpu_limit # state.virtual_cpu_limit
    /\ CommitThenRollup(1).s.state.pending_cpu_usage = 0
    /\ Find(CommitThenRollup(1).s.limits, TRUE, "alice") = 0

(* ----------------------- claims: error precedence --------------------- *)

\* the (cpu_usage, net_usage) of the transactions the order of the checks is
\* evaluated on
PrecedenceUsage == RuleUsage \cup {<<3, 3>>}

\* account a fails one of its two share checks
ShareFails(a, u) ==
    CpuRuleFails(a, u[1], ScenarioSlot) \/ NetRuleFails(a, u[2], ScenarioSlot)

\* the first account, in the set's order, that fails a share check
FirstFailing(accounts, u) ==
    CHOOSE a \in accounts :
        /\ ShareFails(a, u)
        /\ \A b \in accounts : ShareFails(b, u) => Rank(a) <= Rank(b)

\* the store the block asserts of add_transaction_usage look at
WithPending(u) ==
    [Store EXCEPT !.state.pending_cpu_usage = Wrap(@ + u[1]),
                  !.state.pending_net_usage = Wrap(@ + u[2])]

\* C37: add_transaction_usage checks the authorizers in the set's sorted
\* order, each with the cpu share before the net share, and the block only after
\* every authorizer has passed. If an authorizer's share is exceeded the call
\* fails with CpuUsageExceeded or NetUsageExceeded (cpu when both are exceeded
\* for the same account), never with BlockResourceExhausted; when both block
\* limits are exceeded the resource reported is cpu.
C37_ErrorPrecedence ==
    \A accounts \in AuthorizerSets : \A u \in PrecedenceUsage :
        (Running /\ \A a \in accounts : Known(a)) =>
            LET err == add_transaction_usage(Store, accounts, u[1], u[2],
                                             ScenarioSlot).err
                failing == \E a \in accounts : ShareFails(a, u)
                first == FirstFailing(accounts, u)
                block == exhausted_resource(WithPending(u))
            IN  /\ failing =>
                       err = IF CpuRuleFails(first, u[1], ScenarioSlot)
                             THEN "CpuUsageExceeded" ELSE "NetUsageExceeded"
                /\ ~failing =>
                       err = IF block = "none" THEN "ok" ELSE "BlockResourceExhausted"
                /\ ( /\ WithPending(u).state.pending_cpu_usage
                            > config.cpu_limit_parameters.max
                     /\ WithPending(u).state.pending_net_usage
                            > config.net_limit_parameters.max ) => block = "cpu"

\* a transaction of alice and gstio above the block's room in both resources:
\* alice, first in the set, is above her net share only, gstio is above its cpu
\* share, and the call fails with NetUsageExceeded
C37_Witness ==
    /\ Running /\ Known("alice") /\ Known("gstio")
    /\ ~CpuRuleFails("alice", 3, ScenarioSlot) /\ NetRuleFails("alice", 3, ScenarioSlot)
    /\ CpuRuleFails("gstio", 3, ScenarioSlot)
    /\ exhausted_resource(WithPending(<<3, 3>>)) = "cpu"
    /\ WithPending(<<3, 3>>).state.pending_net_usage > config.net_limit_parameters.max
    /\ add_transaction_usage(Store, {"alice", "gstio"}, 3, 3, ScenarioSlot).err
           = "NetUsageExceeded"

(* ------------------- claims: staging and the commit ------------------- *)

\* set_account_limits with the limits l = (ram_bytes, net_weight, cpu_weight)
SetLimits(s, a, l) == set_account_limits(s, a, l[1], l[2], l[3])

\* C38: when set_account_limits is called several times for one owner before
\* the next process_account_limit_updates, the commit applies the values of the
\* last call only (the committed row and the totals end as if that call alone
\* had been made), and the decreased flag of each call is computed against the
\* value staged by the call before it, not against the committed one.
C38_LastWriterWins ==
    \A a \in StagingAccounts : \A l1 \in DecreaseArgs : \A l2 \in DecreaseArgs :
        (Running /\ Find(limits, FALSE, a) # 0) =>
            LET first == SetLimits(Store, a, l1)
                second == SetLimits(first.s, a, l2)
                alone == SetLimits(Store, a, l2)
                both == process_account_limit_updates(second.s)
                last == process_account_limit_updates(alone.s)
            IN  /\ first.err = "ok" /\ second.err = "ok" /\ alone.err = "ok"
                /\ both.err = last.err
                /\ both.s = last.s
                /\ both.err = "ok" =>
                       /\ Find(both.s.limits, TRUE, a) = 0
                       /\ LET row == both.s.limits[Find(both.s.limits, FALSE, a)]
                          IN  <<row.ram_bytes, row.net_weight, row.cpu_weight>> = l2
                /\ second.val = IF l2[1] < 0 THEN FALSE
                                ELSE IF l1[1] < 0 THEN TRUE
                                ELSE l2[1] < l1[1]

\* alice's committed ram_bytes is 0 and a larger value is staged for her: a
\* second call staging 1 returns true, which it would not against the
\* committed 0, and the commit leaves her at 1 with the totals of that value
C38_Witness ==
    /\ ret.op = "set_account_limits" /\ ret.err = "ok"
    /\ Find(limits, FALSE, "alice") # 0 /\ Find(limits, TRUE, "alice") # 0
    /\ limits[Find(limits, FALSE, "alice")].ram_bytes = 0
    /\ limits[Find(limits, TRUE, "alice")].ram_bytes = INT64_MAX
    /\ Find(limits, TRUE, "gstio") = 0
    /\ SetLimits(Store, "alice", <<1, 1, 1>>).val = TRUE
    /\ LET done == process_account_limit_updates(
                       SetLimits(Store, "alice", <<1, 1, 1>>).s)
       IN  /\ done.err = "ok"
           /\ done.s.limits[Find(done.s.limits, FALSE, "alice")].ram_bytes = 1
           /\ done.s.state.total_ram_bytes = state.total_ram_bytes + 1

\* C39: in every state reachable through initialize_account,
\* set_account_limits and process_account_limit_updates, for every account with
\* resolved cpu_weight >= 0 while total_cpu_weight > 0, the share that
\* add_transaction_usage compares with (and get_account_cpu_limit_ex returns as
\* max) is at most virtual_cpu_limit * W_cpu, the resolved cpu_weight never
\* being above state.total_cpu_weight; likewise for net.
C39_ShareWithinCapacity ==
    \A a \in StagingAccounts :
        (Running /\ Known(a)) =>
            /\ (Resolved(a).cpu_weight >= 0 /\ state.total_cpu_weight > 0) =>
                   /\ Resolved(a).cpu_weight <= state.total_cpu_weight
                   /\ CpuShare(a) <= state.virtual_cpu_limit
                                         * config.account_cpu_usage_average_window
            /\ (Resolved(a).net_weight >= 0 /\ state.total_net_weight > 0) =>
                   /\ Resolved(a).net_weight <= state.total_net_weight
                   /\ NetShare(a) <= state.virtual_net_limit
                                         * config.account_net_usage_average_window

\* alice's committed cpu_weight of 1 is the whole total and a weight of
\* INT64_MAX has been staged for her: her share is that many times the
\* capacity of the window
C39_Witness ==
    /\ ret.op = "set_account_limits" /\ ret.err = "ok"
    /\ Known("alice")
    /\ limits[Find(limits, FALSE, "alice")].cpu_weight = 1
    /\ state.total_cpu_weight = 1
    /\ Resolved("alice").cpu_weight = INT64_MAX
    /\ CpuShare("alice") = INT64_MAX * state.virtual_cpu_limit
                               * config.account_cpu_usage_average_window

\* the owners with a pending row
PendingOwners(tbl) == {tbl[i].owner : i \in {j \in DOMAIN tbl : tbl[j].pending}}

\* the owners of the trace come in ascending order, none twice
Ascending(trace) ==
    \A i \in DOMAIN trace : \A j \in DOMAIN trace :
        i < j => Rank(trace[i]) < Rank(trace[j])

\* C40 as stated: from any state reachable from initialize_database,
\* process_account_limit_updates handles each pending AccountLimits row exactly
\* once, in ascending owner order, removes it, and finishes after as many turns
\* as there were pending rows; the underflow StateInconsistent is never raised.
C40_CommitLoopCompletes ==
    Running =>
        LET r == process_account_limit_updates(Store)
            trace == commit_trace(limits, state)
        IN  /\ r.err # "StateInconsistentUnderflow"
            /\ Ascending(trace)
            /\ Len(trace) = Cardinality(PendingOwners(limits))
            /\ {trace[i] : i \in DOMAIN trace} = PendingOwners(limits)
            /\ PendingOwners(r.s.limits) = {}

\* C40, amended: the loop ends after at most as many turns as there were
\* pending rows, handling them in ascending owner order, none twice; it never
\* raises the underflow StateInconsistent; when it raises nothing it has
\* handled and removed every pending row; the one failure it raises is the
\* overflow StateInconsistent, which ends it at the row that overflows and
\* leaves that row and those of greater owners pending.
C40_CommitLoop ==
    Running =>
        LET r == process_account_limit_updates(Store)
            trace == commit_trace(limits, state)
            handled == {trace[i] : i \in DOMAIN trace}
        IN  /\ r.err \in {"ok", "StateInconsistentOverflow"}
            /\ Ascending(trace)
            /\ handled \subseteq PendingOwners(limits)
            /\ PendingOwners(r.s.limits) = PendingOwners(limits) \ handled
            /\ Len(r.s.limits) = Len(limits) - Len(trace)
            /\ r.err = "ok" => handled = PendingOwners(limits)
            /\ r.err = "StateInconsistentOverflow" =>
                   /\ handled # PendingOwners(limits)
                   /\ \A a \in handled : \A b \in PendingOwners(r.s.limits) :
                          Rank(a) < Rank(b)

\* three accounts have staged rows, and the commit of all three leaves none
C40_Witness ==
    /\ Running
    /\ PendingOwners(limits) = Accounts
    /\ commit_trace(limits, state) = NameOrder
    /\ process_account_limit_updates(Store).err = "ok"
    /\ process_account_limit_updates(Store).s.state.total_ram_bytes
           # state.total_ram_bytes

====
